---- MODULE Spec2Model ----
(***************************************************************************)
(* Custodial Stellar key store of juby-app-stellar and the services built  *)
(* on it.                                                                  *)
(*                                                                         *)
(* StellarWalletService (lib/services/stellar-wallet.service.ts and its    *)
(* demo-mode variant), the persistence it runs on (lib/mock-db.ts, the     *)
(* stellar_wallets table of the Prisma migration, the demo-mode global     *)
(* Map) and the AES-256-GCM envelope it stores secret keys in;             *)
(* CrossmintService (lib/services/crossmint.service.ts) against the        *)
(* Crossmint API; the custodial flows of DefindexService, over prisma and  *)
(* with prisma disabled, against the DeFindex SDK and the network.         *)
(*                                                                         *)
(* JavaScript strings are sequences of UTF-16 code units, Buffers are      *)
(* sequences of bytes.  Every async method is cut at its awaits: what runs *)
(* between two awaits is one action.                                       *)
(***************************************************************************)
EXTENDS Integers, Sequences, FiniteSets, TLC

\* ------------------------------------------------------------------------
\* Bounds of the model
\* ------------------------------------------------------------------------
MaxPlainChars == 2
MaxCreates == 2
MaxReads == 1
MaxSigns == 1
MaxDbFailures == 1
MaxClock == 1
MaxRacingSigns == 2
MaxCrossmintCalls == 3
MaxDeposits == 2
MaxWithdrawals == 2
MaxSubmits == 1
VaultAmount == 2

NULL == [none |-> TRUE]

\* ------------------------------------------------------------------------
\* Sequence helpers
\* ------------------------------------------------------------------------
RECURSIVE Rep(_, _)
Rep(x, n) == IF n = 0 THEN <<>> ELSE <<x>> \o Rep(x, n - 1)

Take(s, n) == IF n >= Len(s) THEN s ELSE SubSeq(s, 1, n)

Drop(s, n) == IF n >= Len(s) THEN <<>> ELSE SubSeq(s, n + 1, Len(s))

\* ------------------------------------------------------------------------
\* Buffer <-> hex string (Buffer.from(s, "hex"), buf.toString("hex"))
\* ------------------------------------------------------------------------
\* The decoder reads the low byte of each code unit.
HexVal(c) ==
    LET b == c % 256
    IN  IF b \in 48..57 THEN b - 48
        ELSE IF b \in 97..102 THEN b - 87
        ELSE IF b \in 65..70 THEN b - 55
        ELSE -1

HexDigit(n) == IF n < 10 THEN 48 + n ELSE 87 + n

\* Buffer.from(s, "hex"): decoding stops at the first pair that is not two
\* hex digits; an odd trailing character is dropped.
BufferFromHex(s) ==
    LET pairs == Len(s) \div 2
        bad == {i \in 1..pairs : HexVal(s[2 * i - 1]) < 0 \/ HexVal(s[2 * i]) < 0}
        n == IF bad = {} THEN pairs
             ELSE (CHOOSE i \in bad : \A j \in bad : i <= j) - 1
    IN  [i \in 1..n |-> 16 * HexVal(s[2 * i - 1]) + HexVal(s[2 * i])]

BufferToHex(b) ==
    [i \in 1..(2 * Len(b)) |->
        IF i % 2 = 1 THEN HexDigit(b[(i + 1) \div 2] \div 16)
        ELSE HexDigit(b[i \div 2] % 16)]

\* ------------------------------------------------------------------------
\* String <-> UTF-8 (the "utf8" input/output encodings of cipher.update)
\* ------------------------------------------------------------------------
IsHighSurrogate(c) == c \in 55296..56319
IsLowSurrogate(c) == c \in 56320..57343

Utf8OfCodePoint(cp) ==
    IF cp < 128 THEN <<cp>>
    ELSE IF cp < 2048 THEN <<192 + (cp \div 64), 128 + (cp % 64)>>
    ELSE IF cp < 65536
        THEN <<224 + (cp \div 4096), 128 + ((cp \div 64) % 64), 128 + (cp % 64)>>
    ELSE <<240 + (cp \div 262144), 128 + ((cp \div 4096) % 64),
           128 + ((cp \div 64) % 64), 128 + (cp % 64)>>

\* An unpaired surrogate is encoded as U+FFFD (EF BF BD).
RECURSIVE Utf8Encode(_)
Utf8Encode(s) ==
    IF s = <<>> THEN <<>>
    ELSE IF IsHighSurrogate(s[1]) /\ Len(s) >= 2 /\ IsLowSurrogate(s[2])
        THEN Utf8OfCodePoint(65536 + (s[1] - 55296) * 1024 + (s[2] - 56320))
             \o Utf8Encode(Drop(s, 2))
    ELSE IF IsHighSurrogate(s[1]) \/ IsLowSurrogate(s[1])
        THEN <<239, 191, 189>> \o Utf8Encode(Tail(s))
    ELSE Utf8OfCodePoint(s[1]) \o Utf8Encode(Tail(s))

IsCont(b) == b \in 128..191

CodeUnitsOf(cp) ==
    IF cp < 65536 THEN <<cp>>
    ELSE <<55296 + ((cp - 65536) \div 1024), 56320 + ((cp - 65536) % 1024)>>

\* The number of continuation bytes a lead byte asks for (0: not a lead).
Utf8Need(lead) ==
    IF lead \in 194..223 THEN 1
    ELSE IF lead \in 224..239 THEN 2
    ELSE IF lead \in 240..244 THEN 3
    ELSE 0

\* The second bytes that keep the sequence shortest-form, outside the
\* surrogates and below U+110000.
Utf8SecondRange(lead) ==
    IF lead = 224 THEN 160..191
    ELSE IF lead = 237 THEN 128..159
    ELSE IF lead = 240 THEN 144..191
    ELSE IF lead = 244 THEN 128..143
    ELSE 128..191

\* The number of bytes after the lead b[1] that continue a well-formed
\* sequence, at most Utf8Need(b[1]).
Utf8Have(b) ==
    LET need == Utf8Need(b[1])
        ok2 == Len(b) >= 2 /\ b[2] \in Utf8SecondRange(b[1])
        ok3 == ok2 /\ Len(b) >= 3 /\ IsCont(b[3])
        ok4 == ok3 /\ Len(b) >= 4 /\ IsCont(b[4])
    IN  IF ~ok2 THEN 0
        ELSE IF need = 1 \/ ~ok3 THEN 1
        ELSE IF need = 2 \/ ~ok4 THEN 2
        ELSE 3

\* A byte that starts no sequence, and each longest prefix of a sequence
\* that is cut short, decodes to one U+FFFD.
RECURSIVE Utf8Decode(_)
Utf8Decode(b) ==
    IF b = <<>> THEN <<>>
    ELSE IF b[1] < 128 THEN <<b[1]>> \o Utf8Decode(Tail(b))
    ELSE IF Utf8Need(b[1]) = 0 THEN <<65533>> \o Utf8Decode(Tail(b))
    ELSE IF Utf8Have(b) < Utf8Need(b[1])
        THEN <<65533>> \o Utf8Decode(Drop(b, Utf8Have(b) + 1))
    ELSE IF Utf8Need(b[1]) = 1
        THEN <<(b[1] - 192) * 64 + (b[2] - 128)>> \o Utf8Decode(Drop(b, 2))
    ELSE IF Utf8Need(b[1]) = 2
        THEN <<(b[1] - 224) * 4096 + (b[2] - 128) * 64 + (b[3] - 128)>>
             \o Utf8Decode(Drop(b, 3))
    ELSE CodeUnitsOf((b[1] - 240) * 262144 + (b[2] - 128) * 4096
                     + (b[3] - 128) * 64 + (b[4] - 128))
         \o Utf8Decode(Drop(b, 4))

\* ------------------------------------------------------------------------
\* AES-256-GCM (crypto.createCipheriv / createDecipheriv, "aes-256-gcm"):
\* the AES-256 block cipher of FIPS 197 in the counter mode with GHASH of
\* NIST SP 800-38D, on bytes 0..255.  The argument checks are those of
\* Node's crypto module and of OpenSSL.
\* ------------------------------------------------------------------------
KeyBytes == 32
IvBytes == 12
TagBytes == 16

\* The longest IV OpenSSL takes for GCM.
GcmIvMaxBytes == 128

\* The function f over 1..n as a tuple.
AsTuple(f) == f \o <<>>

\* The bitwise exclusive or of the naturals a and b.
RECURSIVE XorBits(_, _)
XorBits(a, b) ==
    IF a = 0 THEN b
    ELSE IF b = 0 THEN a
    ELSE ((a + b) % 2) + 2 * XorBits(a \div 2, b \div 2)

XorTable ==
    AsTuple([a \in 1..256 |-> AsTuple([b \in 1..256 |-> XorBits(a - 1, b - 1)])])

Xor(a, b) == XorTable[a + 1][b + 1]

XorVec(a, b) == AsTuple([i \in 1..Len(a) |-> Xor(a[i], b[i])])

SBox ==
    <<99, 124, 119, 123, 242, 107, 111, 197, 48, 1, 103, 43, 254, 215, 171, 118,
      202, 130, 201, 125, 250, 89, 71, 240, 173, 212, 162, 175, 156, 164, 114, 192,
      183, 253, 147, 38, 54, 63, 247, 204, 52, 165, 229, 241, 113, 216, 49, 21,
      4, 199, 35, 195, 24, 150, 5, 154, 7, 18, 128, 226, 235, 39, 178, 117,
      9, 131, 44, 26, 27, 110, 90, 160, 82, 59, 214, 179, 41, 227, 47, 132,
      83, 209, 0, 237, 32, 252, 177, 91, 106, 203, 190, 57, 74, 76, 88, 207,
      208, 239, 170, 251, 67, 77, 51, 133, 69, 249, 2, 127, 80, 60, 159, 168,
      81, 163, 64, 143, 146, 157, 56, 245, 188, 182, 218, 33, 16, 255, 243, 210,
      205, 12, 19, 236, 95, 151, 68, 23, 196, 167, 126, 61, 100, 93, 25, 115,
      96, 129, 79, 220, 34, 42, 144, 136, 70, 238, 184, 20, 222, 94, 11, 219,
      224, 50, 58, 10, 73, 6, 36, 92, 194, 211, 172, 98, 145, 149, 228, 121,
      231, 200, 55, 109, 141, 213, 78, 169, 108, 86, 244, 234, 101, 122, 174, 8,
      186, 120, 37, 46, 28, 166, 180, 198, 232, 221, 116, 31, 75, 189, 139, 138,
      112, 62, 181, 102, 72, 3, 246, 14, 97, 53, 87, 185, 134, 193, 29, 158,
      225, 248, 152, 17, 105, 217, 142, 148, 155, 30, 135, 233, 206, 85, 40, 223,
      140, 161, 137, 13, 191, 230, 66, 104, 65, 153, 45, 15, 176, 84, 187, 22>>

\* The products by 2 and by 3 in GF(2^8) modulo x^8 + x^4 + x^3 + x + 1.
Mul2 ==
    AsTuple([a \in 1..256 |->
        IF a - 1 < 128 THEN 2 * (a - 1) ELSE XorBits(2 * (a - 1) - 256, 27)])

Mul3 == AsTuple([a \in 1..256 |-> XorBits(Mul2[a], a - 1)])

\* ---- The key schedule of AES-256 (FIPS 197, 5.2) ----
Rcon == <<1, 2, 4, 8, 16, 32, 64>>

SubWord(w) == AsTuple([i \in 1..4 |-> SBox[w[i] + 1]])

RotWord(w) == <<w[2], w[3], w[4], w[1]>>

\* Word i, from 0, of the schedule w.
Word(w, i) == SubSeq(w, 4 * i + 1, 4 * i + 4)

\* What word i of the schedule takes from the word before it.
ScheduleCore(temp, i) ==
    IF i % 8 = 0
        THEN XorVec(SubWord(RotWord(temp)), <<Rcon[i \div 8], 0, 0, 0>>)
    ELSE IF i % 8 = 4 THEN SubWord(temp)
    ELSE temp

\* The sixty words of the schedule of a 32-byte key.
Schedule(key) ==
    LET expand[w \in Seq(0..255), i \in 8..60] ==
            IF i = 60 THEN w
            ELSE expand[w \o XorVec(Word(w, i - 8),
                                    ScheduleCore(Word(w, i - 1), i)), i + 1]
    IN  expand[key, 8]

RoundKeysOf(w) == AsTuple([r \in 1..15 |-> SubSeq(w, 16 * r - 15, 16 * r)])

\* The fifteen round keys of AES-256.
KeyExpansion(key) == RoundKeysOf(Schedule(key))

\* ---- The rounds of AES (FIPS 197, 5.1): byte 4 c + r + 1 of the state is
\* row r of column c ----
SubBytes(s) == AsTuple([i \in 1..16 |-> SBox[s[i] + 1]])

ShiftRows(s) ==
    AsTuple([i \in 1..16 |->
        s[4 * ((((i - 1) \div 4) + ((i - 1) % 4)) % 4) + ((i - 1) % 4) + 1]])

\* Row r of column c (c the index before its first byte) after MixColumns.
MixByte(s, c, r) ==
    Xor(Xor(Mul2[s[c + r + 1] + 1], Mul3[s[c + ((r + 1) % 4) + 1] + 1]),
        Xor(s[c + ((r + 2) % 4) + 1], s[c + ((r + 3) % 4) + 1]))

MixColumns(s) ==
    AsTuple([i \in 1..16 |-> MixByte(s, 4 * ((i - 1) \div 4), (i - 1) % 4)])

\* Round r - 1 of 14: the last has no MixColumns.
AesRound(s, r) ==
    IF r = 15 THEN ShiftRows(SubBytes(s)) ELSE MixColumns(ShiftRows(SubBytes(s)))

Block == [1..16 -> 0..255]

AesEncryptBlock(roundKeys, block) ==
    LET rounds[s \in Block, r \in 2..16] ==
            IF r = 16 THEN s
            ELSE rounds[XorVec(AesRound(s, r), roundKeys[r]), r + 1]
    IN  rounds[XorVec(block, roundKeys[1]), 2]

Zero16 == <<0, 0, 0, 0, 0, 0, 0, 0, 0, 0, 0, 0, 0, 0, 0, 0>>

\* ---- GF(2^128) of GHASH (SP 800-38D, 6.3 and 6.4) ----
\* v times x: one bit to the right, reduced by 11100001 || 0^120.
TimesX(v) ==
    AsTuple([i \in 1..16 |->
        IF i = 1 THEN (IF v[16] % 2 = 1 THEN Xor(v[1] \div 2, 225) ELSE v[1] \div 2)
        ELSE (v[i] \div 2) + 128 * (v[i - 1] % 2)])

\* <<v, v x, ..., v x^(n - 1)>>
RECURSIVE Shifts(_, _)
Shifts(v, n) ==
    IF n = 1 THEN <<v>>
    ELSE LET left == Shifts(v, n \div 2)
         IN  left \o Shifts(TimesX(left[n \div 2]), n - (n \div 2))

\* The products of the bytes 0 .. 2^n - 1 at position j of a block and h:
\* bit 2^m of the byte selects h x^(8 (j - 1) + 7 - m).
RECURSIVE ByteProducts(_, _, _)
ByteProducts(shifts, j, n) ==
    IF n = 0 THEN <<Zero16>>
    ELSE LET low == ByteProducts(shifts, j, n - 1)
         IN  low \o AsTuple([b \in 1..Len(low) |->
                                XorVec(low[b], shifts[8 * j - (n - 1)])])

ByteTables(shifts) == AsTuple([j \in 1..16 |-> ByteProducts(shifts, j, 8)])

\* hashTable[j][b + 1] is the product of h and the block whose byte j is b
\* and whose other bytes are 0.
HashTable(h) == ByteTables(Shifts(h, 128))

\* What a cipher context keeps of its key: the round keys and the table of
\* the hash subkey, the encryption of the zero block.
SetupOf(roundKeys) ==
    [roundKeys |-> roundKeys,
     hashTable |-> HashTable(AesEncryptBlock(roundKeys, Zero16)),
     blocks |-> <<>>]

GcmSetup(key) == SetupOf(KeyExpansion(key))

RECURSIVE XorRange(_, _, _, _)
XorRange(m, y, lo, hi) ==
    IF lo = hi THEN m[lo][y[lo] + 1]
    ELSE XorVec(XorRange(m, y, lo, (lo + hi) \div 2),
                XorRange(m, y, (lo + hi) \div 2 + 1, hi))

\* y times h
GcmMult(hashTable, y) == XorRange(hashTable, y, 1, 16)

Pad16(d) == d \o [i \in 1..((16 - (Len(d) % 16)) % 16) |-> 0]

\* GHASH of data, whose length is a multiple of 16.
Ghash(hashTable, data) ==
    LET hash[y \in Block, i \in 1..(Len(data) \div 16 + 1)] ==
            IF 16 * i > Len(data) THEN y
            ELSE hash[GcmMult(hashTable,
                              XorVec(y, SubSeq(data, 16 * i - 15, 16 * i))), i + 1]
    IN  hash[Zero16, 1]

\* The length of n bytes in bits, as 8 bytes.
BitLength(n) ==
    <<0, 0, 0, 0, (n \div 2097152) % 256, (n \div 8192) % 256, (n \div 32) % 256,
      (8 * n) % 256>>

\* The counter block of the IV: a 12-byte IV is followed by the count 1, any
\* other is hashed.
Counter0(hashTable, iv) ==
    IF Len(iv) = 12 THEN iv \o <<0, 0, 0, 1>>
    ELSE Ghash(hashTable, Pad16(iv) \o BitLength(0) \o BitLength(Len(iv)))

\* The counter block n after j0 (the last four bytes count modulo 2^32).
CounterLow(j0, n) == 256 * j0[15] + j0[16] + n

CounterHigh(j0, low) == (256 * j0[13] + j0[14] + (low \div 65536)) % 65536

CounterEnd(high, low) ==
    <<high \div 256, high % 256, (low % 65536) \div 256, low % 256>>

CounterBlock(j0, n) ==
    SubSeq(j0, 1, 12)
        \o CounterEnd(CounterHigh(j0, CounterLow(j0, n)), CounterLow(j0, n))

\* crypto.randomBytes(12): the bytes of draw number n of the random source.
randomBytes(n) == [i \in 1..IvBytes |-> IF i = IvBytes THEN n % 256 ELSE 17 * i]

\* Two values of ENCRYPTION_MASTER_KEY: 64 hex characters each.
KeyHexA == Rep(97, 64)
KeyHexB == Rep(98, 64)

\* The 32-byte master keys this model encrypts under: those of KeyHexA and
\* KeyHexB, a key of 32 distinct bytes, two keys that differ from the first
\* in one bit, of the last byte and of the first, the keys of all bits 0
\* and of all bits 1, and a key that differs from the third in one bit of
\* byte 16.
KnownKeys ==
    <<AsTuple(BufferFromHex(KeyHexA)),
      AsTuple(BufferFromHex(KeyHexB)),
      AsTuple([i \in 1..KeyBytes |-> (7 * i) % 256]),
      AsTuple([i \in 1..KeyBytes |-> IF i = KeyBytes THEN 171 ELSE 170]),
      AsTuple([i \in 1..KeyBytes |-> IF i = 1 THEN 42 ELSE 170]),
      AsTuple([i \in 1..KeyBytes |-> 0]),
      AsTuple([i \in 1..KeyBytes |-> 255]),
      AsTuple([i \in 1..KeyBytes |-> IF i = 16 THEN 120 ELSE (7 * i) % 256])>>

\* The counter blocks of the first draws of the random source: that of the
\* IV, for the tag, and the one after it, for 16 bytes of data.
KeptDraws == 0..16

KnownCounters ==
    {CounterBlock(randomBytes(d) \o <<0, 0, 0, 1>>, n) : d \in KeptDraws, n \in 0..1}

\* The setup with the encryptions of the blocks in counters kept.
Keeping(setup, counters) ==
    [setup EXCEPT !.blocks =
        [b \in counters |-> AesEncryptBlock(setup.roundKeys, b)] @@ <<>>]

\* The setup of the known keys is computed once, with the encryptions of the
\* known counter blocks; that of any other key when the key is used.
KnownSetups ==
    AsTuple([n \in 1..Len(KnownKeys) |->
                Keeping(GcmSetup(KnownKeys[n]), KnownCounters)])

KeyNumbers(key) == {n \in 1..Len(KnownKeys) : KnownKeys[n] = key}

GcmKey(key) ==
    IF KeyNumbers(key) = {} THEN GcmSetup(key)
    ELSE KnownSetups[CHOOSE n \in KeyNumbers(key) : TRUE]

\* The encryption of a counter block, kept or computed.
EncryptedCounter(setup, block) ==
    IF block \in DOMAIN setup.blocks THEN setup.blocks[block]
    ELSE AesEncryptBlock(setup.roundKeys, block)

\* The first n blocks of the key stream: the encrypted counter blocks after j0.
KeyStream(setup, j0, n) ==
    AsTuple([k \in 1..n |-> EncryptedCounter(setup, CounterBlock(j0, k))])

XorStream(data, stream) ==
    AsTuple([i \in 1..Len(data) |->
        Xor(data[i], stream[(i + 15) \div 16][((i - 1) % 16) + 1])])

CryptWith(setup, iv, data) ==
    XorStream(data, KeyStream(setup, Counter0(setup.hashTable, iv),
                              (Len(data) + 15) \div 16))

\* cipher.update / decipher.update: data XOR the key stream.
GcmCrypt(key, iv, data) == CryptWith(GcmKey(key), iv, data)

TagWith(setup, iv, ct) ==
    XorVec(Ghash(setup.hashTable, Pad16(ct) \o BitLength(0) \o BitLength(Len(ct))),
           EncryptedCounter(setup, Counter0(setup.hashTable, iv)))

\* cipher.getAuthTag(): GHASH of the ciphertext and its length (there is no
\* additional data), XOR the encrypted counter block of the IV.
GcmTag(key, iv, ct) == TagWith(GcmKey(key), iv, ct)

ValidAuthTagLengths == {4, 8, 12, 13, 14, 15, 16}

Ok(v) == [ok |-> TRUE, value |-> v]
Err(m) == [ok |-> FALSE, error |-> m]

\* decipher.setAuthTag(tag) refuses a tag of a length GCM does not have.
InvalidTagLength(n) == "Invalid authentication tag length: " \o ToString(n)

\* decipher.update(data, "hex", ...) refuses a hex string of odd length.
InvalidHexLength(n) ==
    "The argument 'encoding' is invalid for data of length "
        \o ToString(n) \o ". Received 'hex'"

\* encryptSecretKey with one IV kept for every call.
encryptSecretKeyStaticIv(masterKey, secretKey, iv) ==
    IF Len(masterKey) # KeyBytes THEN Err("Invalid key length")
    ELSE LET ct == GcmCrypt(masterKey, randomBytes(0), Utf8Encode(secretKey))
         IN  Ok([encrypted |-> BufferToHex(ct),
                 iv |-> BufferToHex(randomBytes(0)),
                 tag |-> BufferToHex(GcmTag(masterKey, randomBytes(0), ct))])

\* encryptSecretKey with the IV it drew.
encryptSecretKey(masterKey, secretKey, iv) ==
    IF Len(masterKey) # KeyBytes THEN Err("Invalid key length")
    ELSE LET ct == GcmCrypt(masterKey, iv, Utf8Encode(secretKey))
         IN  Ok([encrypted |-> BufferToHex(ct),
                 iv |-> BufferToHex(iv),
                 tag |-> BufferToHex(GcmTag(masterKey, iv, ct))])

\* decryptSecretKey reading the decrypted bytes one character per byte
\* (decipher.update(encrypted, "hex", "latin1")).
decryptSecretKeyLatin1(masterKey, encrypted, ivHex, tagHex) ==
    LET iv == BufferFromHex(ivHex)
        tag == BufferFromHex(tagHex)
        ct == BufferFromHex(encrypted)
    IN  IF Len(iv) = 0 \/ Len(iv) > GcmIvMaxBytes
            THEN Err("Invalid initialization vector")
        ELSE IF Len(masterKey) # KeyBytes THEN Err("Invalid key length")
        ELSE IF Len(tag) \notin ValidAuthTagLengths
            THEN Err(InvalidTagLength(Len(tag)))
        ELSE IF Len(encrypted) % 2 = 1
            THEN Err(InvalidHexLength(Len(encrypted)))
        ELSE IF tag # Take(GcmTag(masterKey, iv, ct), Len(tag))
            THEN Err("Unsupported state or unable to authenticate data")
        ELSE Ok(GcmCrypt(masterKey, iv, ct))

\* decryptSecretKey returning what decipher.update gave, without the call
\* of decipher.final() that compares the tag.
decryptSecretKeyUnverified(masterKey, encrypted, ivHex, tagHex) ==
    LET iv == BufferFromHex(ivHex)
        ct == BufferFromHex(encrypted)
    IN  IF Len(iv) = 0 \/ Len(iv) > GcmIvMaxBytes
            THEN Err("Invalid initialization vector")
        ELSE IF Len(masterKey) # KeyBytes THEN Err("Invalid key length")
        ELSE IF Len(encrypted) % 2 = 1
            THEN Err(InvalidHexLength(Len(encrypted)))
        ELSE Ok(Utf8Decode(GcmCrypt(masterKey, iv, ct)))

\* decryptSecretKey under the key of the environment whatever key the
\* service was constructed with.
decryptSecretKeyUnderEnvKey(masterKey, encrypted, ivHex, tagHex) ==
    LET iv == BufferFromHex(ivHex)
        tag == BufferFromHex(tagHex)
        ct == BufferFromHex(encrypted)
        key == KnownKeys[1]
    IN  IF Len(iv) = 0 \/ Len(iv) > GcmIvMaxBytes
            THEN Err("Invalid initialization vector")
        ELSE IF Len(tag) \notin ValidAuthTagLengths
            THEN Err(InvalidTagLength(Len(tag)))
        ELSE IF Len(encrypted) % 2 = 1
            THEN Err(InvalidHexLength(Len(encrypted)))
        ELSE IF tag # Take(GcmTag(key, iv, ct), Len(tag))
            THEN Err("Unsupported state or unable to authenticate data")
        ELSE Ok(Utf8Decode(GcmCrypt(key, iv, ct)))

decryptSecretKey(masterKey, encrypted, ivHex, tagHex) ==
    LET iv == BufferFromHex(ivHex)
        tag == BufferFromHex(tagHex)
        ct == BufferFromHex(encrypted)
    IN  IF Len(iv) = 0 \/ Len(iv) > GcmIvMaxBytes
            THEN Err("Invalid initialization vector")
        ELSE IF Len(masterKey) # KeyBytes THEN Err("Invalid key length")
        ELSE IF Len(tag) \notin ValidAuthTagLengths
            THEN Err(InvalidTagLength(Len(tag)))
        ELSE IF Len(encrypted) % 2 = 1
            THEN Err(InvalidHexLength(Len(encrypted)))
        ELSE IF tag # Take(GcmTag(masterKey, iv, ct), Len(tag))
            THEN Err("Unsupported state or unable to authenticate data")
        ELSE Ok(Utf8Decode(GcmCrypt(masterKey, iv, ct)))

\* ------------------------------------------------------------------------
\* Stellar SDK: Keypair and TransactionBuilder
\*
\* A secret key is the string "S" + one letter, its address "G" + the same
\* letter (the SDK's 56-character strkeys, shortened).
\* ------------------------------------------------------------------------
SecretOfDraw(n) == <<83, 65 + (n % 25)>>

KeypairFromSecret(secret) ==
    IF Len(secret) = 2 /\ secret[1] = 83 /\ secret[2] \in 65..90
    THEN Ok([publicKey |-> <<71, secret[2]>>, secret |-> secret])
    ELSE Err("invalid encoded string")

KeypairRandom(n) == KeypairFromSecret(SecretOfDraw(n)).value

Xdrs == {"tx", "garbage"}

\* The envelopes that parse: those a caller hands in, and those the DeFindex
\* SDK builds.
CallerXdrs == {"tx", "tx2"}

ValidXdrs == CallerXdrs \cup {"deposit", "withdraw"}

TransactionFromXDR(xdr) ==
    IF xdr \in ValidXdrs THEN Ok([tx |-> xdr, signatures |-> <<>>])
    ELSE Err("XDR Read Error")

\* The signature is made with the secret half; what the envelope records of
\* it is the address it verifies against.
TransactionSign(transaction, keypair) ==
    [transaction EXCEPT !.signatures =
        Append(@, [verifiesAgainst |->
                      KeypairFromSecret(keypair.secret).value.publicKey])]

\* ------------------------------------------------------------------------
\* State
\* ------------------------------------------------------------------------
Procs == {"p1", "p2"}
Users == {"u1", "u2"}
Services == {"singleton", "direct"}
Modes == {"mock", "postgres", "demo"}
DefindexBuilds == {"prisma", "demo"}

KeyHexNotHex == Rep(122, 64)
KeyHexShort == <<97, 98>>
NoString == <<>>

NoDate == -1

\* What DEMO_STELLAR_SECRET_KEY may hold: nothing, a secret key, other text.
DemoSecretKeys == {NoString, <<83, 89>>, <<110, 111>>}

VARIABLES
    mode,            \* which persistence the process runs on
    envKey,          \* process.env.ENCRYPTION_MASTER_KEY
    envDemoSecretKey, \* process.env.DEMO_STELLAR_SECRET_KEY
    instances,       \* the constructed StellarWalletService objects
    wallets,         \* the stored wallet records, in insertion order
    walletIdCounter, \* mock-db walletIdCounter
    clock,           \* Date.now()
    entropy,         \* number of draws taken from the random source
    logs,            \* what console.log has printed
    calls,           \* number of calls started, per kind of call
    dbFailures,      \* number of database calls that have failed
    call,            \* the async call each caller has in flight
    cipher,          \* the envelope cipher applied to a drawn input
    crossmintWallets,  \* the wallets the Crossmint API holds
    crossmintRequests, \* the requests sent to the Crossmint API
    crossmintCall,     \* the CrossmintService call each caller has in flight
    flow,              \* the DefindexService call each caller has in flight
    network,           \* the transactions the Stellar network has accepted
    depositRecords,    \* prisma.deposit
    vaultBalances,     \* prisma.vaultBalance
    withdrawalRecords, \* prisma.withdrawal
    defindexBuild      \* DefindexService over prisma, or with prisma disabled

\* What is fixed when the process starts: its environment and the build of
\* DefindexService it loads.
deployment == <<envKey, envDemoSecretKey, defindexBuild>>

crossmintVars == <<crossmintWallets, crossmintRequests, crossmintCall>>

defindexVars ==
    <<flow, network, depositRecords, vaultBalances, withdrawalRecords>>

vars == <<mode, deployment, instances, wallets, walletIdCounter, clock, entropy,
          logs, calls, dbFailures, call, cipher, crossmintVars, defindexVars>>

\* ------------------------------------------------------------------------
\* Persistence: prisma.stellarWallet over mock-db or over the
\* stellar_wallets table, and the demo-mode Map global.__mockWallets
\* ------------------------------------------------------------------------
RECURSIVE FirstOf(_, _)
FirstOf(ws, userId) ==
    IF ws = <<>> THEN NULL
    ELSE IF ws[1].userId = userId THEN ws[1]
    ELSE FirstOf(Tail(ws), userId)

\* findUnique({where: {userId}}) / mockWallets.get(userId)
findUnique(ws, userId, fail) ==
    IF fail THEN Err("Can't reach database server")
    ELSE Ok(FirstOf(ws, userId))

NewRecord(id, data, createdAt, lastUsed) ==
    [id |-> id,
     userId |-> data.userId,
     stellarPublicKey |-> data.stellarPublicKey,
     encryptedSecretKey |-> data.encryptedSecretKey,
     encryptionIv |-> data.encryptionIv,
     encryptionTag |-> data.encryptionTag,
     createdAt |-> createdAt,
     lastUsed |-> lastUsed]

\* mock-db create: a new id from walletIdCounter, stored under that id.
mockCreate(ws, counter, data, now) ==
    LET wallet == NewRecord(<<"wallet", counter>>, data, now, NoDate)
    IN  [ok |-> TRUE, value |-> wallet, wallets |-> Append(ws, wallet),
         counter |-> counter + 1]

\* INSERT INTO stellar_wallets: the two unique indexes reject duplicates.
\* The statement may never reach the server ("refused"), or reach it while
\* the reply does not come back ("unacknowledged"): the client throws the
\* same error for both, and in the second the server has done its part.
tableCreate(ws, counter, data, now, uuid, fault) ==
    LET wallet == NewRecord(<<"uuid", uuid>>, data, now, NoDate)
        duplicate ==
            IF \E i \in 1..Len(ws) : ws[i].userId = data.userId
                THEN "Unique constraint failed on the fields: (user_id)"
            ELSE IF \E i \in 1..Len(ws) :
                        ws[i].stellarPublicKey = data.stellarPublicKey
                THEN "Unique constraint failed on the fields: (stellar_public_key)"
            ELSE "none"
    IN  IF fault = "refused" THEN
            [ok |-> FALSE, error |-> "Can't reach database server",
             wallets |-> ws, counter |-> counter]
        ELSE IF fault = "unacknowledged" THEN
            [ok |-> FALSE, error |-> "Can't reach database server",
             wallets |-> IF duplicate = "none" THEN Append(ws, wallet) ELSE ws,
             counter |-> counter]
        ELSE IF duplicate # "none" THEN
            [ok |-> FALSE, error |-> duplicate, wallets |-> ws, counter |-> counter]
        ELSE [ok |-> TRUE, value |-> wallet, wallets |-> Append(ws, wallet),
              counter |-> counter]

create(m, ws, counter, data, now, uuid, fault) ==
    IF m = "mock" THEN mockCreate(ws, counter, data, now)
    ELSE tableCreate(ws, counter, data, now, uuid, fault)

\* What an UPDATE ... WHERE id = id has done when written is what it
\* writes: nothing when the statement did not reach the server, the write
\* when the reply did not come back (the client throws the same error for
\* both), and otherwise the write, or the error of a record that is not
\* there.
Updated(ws, id, written, fault) ==
    IF fault = "refused" THEN
        [ok |-> FALSE, error |-> "Can't reach database server", wallets |-> ws]
    ELSE IF fault = "unacknowledged" THEN
        [ok |-> FALSE, error |-> "Can't reach database server", wallets |-> written]
    ELSE IF ~ \E i \in 1..Len(ws) : ws[i].id = id THEN
        [ok |-> FALSE, error |-> "Wallet not found", wallets |-> ws]
    ELSE [ok |-> TRUE, wallets |-> written]

\* An update that keeps a lastUsed already written.
updateKeepingFirst(ws, id, lastUsed, fault) ==
    Updated(ws, id,
            [i \in 1..Len(ws) |->
                IF ws[i].id = id /\ ws[i].lastUsed = NoDate
                THEN [ws[i] EXCEPT !.lastUsed = lastUsed]
                ELSE ws[i]],
            fault)

\* An update that writes createdAt along with lastUsed.
updateRewriting(ws, id, lastUsed, fault) ==
    Updated(ws, id,
            [i \in 1..Len(ws) |->
                IF ws[i].id = id
                THEN [ws[i] EXCEPT !.lastUsed = lastUsed,
                                   !.createdAt = lastUsed + 1]
                ELSE ws[i]],
            fault)

\* update({where: {id}, data: {lastUsed}})
update(ws, id, lastUsed, fault) ==
    Updated(ws, id,
            [i \in 1..Len(ws) |->
                IF ws[i].id = id
                THEN [ws[i] EXCEPT !.lastUsed = lastUsed]
                ELSE ws[i]],
            fault)

\* demo mode: mockWallet.lastUsed = new Date() when the Map has the userId
demoTouch(ws, userId, now) ==
    [i \in 1..Len(ws) |->
        IF ws[i].userId = userId THEN [ws[i] EXCEPT !.lastUsed = now] ELSE ws[i]]

\* new Date() after a reading of t: time may have passed since.
NowAfter(t) == {u \in t..MaxClock : u <= t + 1}

\* new Date(): time may have passed since the clock was last read.
Now == NowAfter(clock)

\* Whether a call to the database may fail: only a real server can.
DbFails ==
    IF mode = "postgres" /\ dbFailures < MaxDbFailures THEN BOOLEAN ELSE {FALSE}

Failed(fail) == dbFailures' = dbFailures + (IF fail THEN 1 ELSE 0)

\* How a write may fail: only on a real server.
WriteFaults ==
    IF mode = "postgres" /\ dbFailures < MaxDbFailures
    THEN {"none", "refused", "unacknowledged"}
    ELSE {"none"}

\* ------------------------------------------------------------------------
\* StellarWalletService: constructor and singleton
\* ------------------------------------------------------------------------
\* new StellarWalletService(masterKeyHex)
NewService(masterKeyHex, env) ==
    LET keyHex == IF masterKeyHex # NoString THEN masterKeyHex ELSE env
    IN  IF keyHex = NoString
            THEN Err("ENCRYPTION_MASTER_KEY environment variable is required")
        ELSE IF Len(keyHex) # 64
            THEN Err("ENCRYPTION_MASTER_KEY must be 32 bytes (64 hex characters)")
        ELSE Ok([masterKey |-> BufferFromHex(keyHex)])

\* getStellarWalletService constructing anew whenever it is given a key.
getStellarWalletServiceReplacing(masterKeyHex) ==
    /\ IF (instances["singleton"] = NULL \/ masterKeyHex # NoString)
            /\ NewService(masterKeyHex, envKey).ok
       THEN instances' = [instances EXCEPT
                            !["singleton"] = NewService(masterKeyHex, envKey).value]
       ELSE UNCHANGED instances
    /\ UNCHANGED <<crossmintVars, defindexVars, mode, deployment, wallets, walletIdCounter, clock, entropy,
                   logs, calls, dbFailures, call, cipher>>

\* getStellarWalletService(masterKeyHex): constructs the instance once;
\* a constructor that throws leaves the singleton unset.
getStellarWalletService(masterKeyHex) ==
    /\ IF instances["singleton"] = NULL /\ NewService(masterKeyHex, envKey).ok
       THEN instances' = [instances EXCEPT
                            !["singleton"] = NewService(masterKeyHex, envKey).value]
       ELSE UNCHANGED instances
    /\ UNCHANGED <<crossmintVars, defindexVars, mode, deployment, wallets, walletIdCounter, clock, entropy,
                   logs, calls, dbFailures, call, cipher>>

\* A caller constructing its own instance of the exported class.
newStellarWalletService(masterKeyHex) ==
    /\ instances["direct"] = NULL
    /\ NewService(masterKeyHex, envKey).ok
    /\ instances' = [instances EXCEPT
                        !["direct"] = NewService(masterKeyHex, envKey).value]
    /\ UNCHANGED <<crossmintVars, defindexVars, mode, deployment, wallets, walletIdCounter, clock, entropy,
                   logs, calls, dbFailures, call, cipher>>

\* ------------------------------------------------------------------------
\* Calls in flight
\* ------------------------------------------------------------------------
IdleCall ==
    [pc |-> "idle", op |-> "none", svc |-> "singleton", userId |-> "u1",
     xdr |-> "tx", wallet |-> NULL, keypair |-> NULL, result |-> NULL]

CallKinds == {"create", "read", "sign", "deposit", "withdraw", "submit"}

Limits == [create |-> MaxCreates, read |-> MaxReads, sign |-> MaxSigns,
           deposit |-> MaxDeposits, withdraw |-> MaxWithdrawals,
           submit |-> MaxSubmits]

\* A caller may start a call on a constructed service when it has none in
\* flight.  Callers and users are interchangeable: the first call is p1's
\* and names u1.
CanStart(p, s, userId, kind) ==
    /\ call[p].pc \in {"idle", "done"}
    /\ flow[p].pc \in {"idle", "done"}
    /\ instances[s] # NULL
    /\ calls[kind] < Limits[kind]
    /\ p = "p1" \/ call["p1"].pc # "idle"
    /\ userId = "u1" \/ \E k \in CallKinds : calls[k] > 0

Counted(kind) == calls' = [calls EXCEPT ![kind] = @ + 1]

Started(p, s, op, userId, xdr, pc, wallet) ==
    [pc |-> pc, op |-> op, svc |-> s, userId |-> userId, xdr |-> xdr,
     wallet |-> wallet, keypair |-> NULL, result |-> NULL]

\* The call returns or throws: its locals go out of scope.
Finished(c, result) ==
    [c EXCEPT !.pc = "done", !.wallet = NULL, !.keypair = NULL, !.result = result]

\* The callers of CrossmintService and DefindexService with no call in flight.
IdleCrossmintCall ==
    [pc |-> "idle", op |-> "none", email |-> "none", response |-> NULL,
     result |-> NULL]

IdleFlow ==
    [pc |-> "idle", op |-> "none", userId |-> "u1", amount |-> 0,
     stellarWallet |-> NULL, awaited |-> NULL, submitResponse |-> NULL,
     result |-> NULL]

\* Nothing has been sent to Crossmint, DeFindex or the network yet.
InitCollaborators ==
    /\ crossmintWallets = <<>>
    /\ crossmintRequests = <<>>
    /\ crossmintCall = [p \in Procs |-> IdleCrossmintCall]
    /\ flow = [p \in Procs |-> IdleFlow]
    /\ network = <<>>
    /\ depositRecords = <<>>
    /\ vaultBalances = <<>>
    /\ withdrawalRecords = <<>>

NoWalletFound == "No Stellar wallet found for user"

CreateWalletResult(wallet) ==
    [userId |-> wallet.userId,
     stellarPublicKey |-> wallet.stellarPublicKey,
     walletId |-> wallet.id]

CreatedLog(userId, keypair) ==
    [event |-> "Created Stellar wallet", userId |-> userId,
     text |-> keypair.publicKey]

\* The signing log line printing the key it signed with.
SignedLogWithSecret(userId, keypair) ==
    [event |-> "Signed transaction", userId |-> userId, text |-> keypair.secret]

SignedLog(userId, keypair) ==
    [event |-> "Signed transaction", userId |-> userId, text |-> <<>>]

WalletData(userId, keypair, encryptedData) ==
    [userId |-> userId,
     stellarPublicKey |-> keypair.publicKey,
     encryptedSecretKey |-> encryptedData.encrypted,
     encryptionIv |-> encryptedData.iv,
     encryptionTag |-> encryptedData.tag]

\* ------------------------------------------------------------------------
\* createWalletForUser over prisma: findUnique, await, create, await, return
\* ------------------------------------------------------------------------
createWalletForUser(p, s, userId) ==
    /\ mode # "demo"
    /\ CanStart(p, s, userId, "create")
    /\ Counted("create")
    /\ \E fail \in DbFails :
        /\ Failed(fail)
        /\ call' = [call EXCEPT ![p] =
                      Started(p, s, "create", userId, "tx", "create_found",
                              findUnique(wallets, userId, fail))]
    /\ UNCHANGED <<crossmintVars, defindexVars, mode, deployment, instances, wallets, walletIdCounter, clock,
                   entropy, logs, cipher>>

\* createWalletForUser inserting a second time when the insert fails.
createWalletForUserStoreRetrying(p) ==
    LET c == call[p]
        keypair == KeypairRandom(entropy)
    IN
    /\ c.pc = "create_found"
    /\ IF ~ c.wallet.ok THEN
            /\ call' = [call EXCEPT ![p] = Finished(c, Err(c.wallet.error))]
            /\ UNCHANGED <<wallets, walletIdCounter, entropy, dbFailures, clock>>
       ELSE IF c.wallet.value # NULL THEN
            /\ call' = [call EXCEPT ![p] =
                          Finished(c, Ok(CreateWalletResult(c.wallet.value)))]
            /\ UNCHANGED <<wallets, walletIdCounter, entropy, dbFailures, clock>>
       ELSE \E encryptedData \in {encryptSecretKey(instances[c.svc].masterKey,
                                                   keypair.secret,
                                                   randomBytes(entropy + 1))} :
            IF ~ encryptedData.ok THEN
                /\ call' = [call EXCEPT ![p] =
                              Finished(c, Err(encryptedData.error))]
                /\ entropy' = entropy + 2
                /\ UNCHANGED <<wallets, walletIdCounter, dbFailures, clock>>
            ELSE \E fault \in WriteFaults, now \in Now :
                 \E first \in {create(mode, wallets, walletIdCounter,
                                      WalletData(c.userId, keypair,
                                                 encryptedData.value),
                                      now, entropy + 2, fault)} :
                 \E r \in {IF first.ok THEN first
                           ELSE create(mode, first.wallets, first.counter,
                                       WalletData(c.userId, keypair,
                                                  encryptedData.value),
                                       now, entropy + 3, "none")} :
                    /\ Failed(fault # "none")
                    /\ clock' = now
                    /\ wallets' = r.wallets
                    /\ walletIdCounter' = r.counter
                    /\ entropy' = entropy + (IF mode = "postgres" THEN 3 ELSE 2)
                    /\ call' = [call EXCEPT ![p] =
                                  IF r.ok
                                  THEN [c EXCEPT !.pc = "create_stored",
                                                 !.wallet = r.value,
                                                 !.keypair = keypair]
                                  ELSE Finished(c, Err(r.error))]
    /\ UNCHANGED <<crossmintVars, defindexVars, mode, deployment, instances, logs, calls, cipher>>

\* createWalletForUser without its "if (existing) return" branch.
createWalletForUserStoreAlways(p) ==
    LET c == call[p]
        keypair == KeypairRandom(entropy)
    IN
    /\ c.pc = "create_found"
    /\ IF ~ c.wallet.ok THEN
            /\ call' = [call EXCEPT ![p] = Finished(c, Err(c.wallet.error))]
            /\ UNCHANGED <<wallets, walletIdCounter, entropy, dbFailures, clock>>
       ELSE \E encryptedData \in {encryptSecretKey(instances[c.svc].masterKey,
                                                   keypair.secret,
                                                   randomBytes(entropy + 1))} :
            IF ~ encryptedData.ok THEN
                /\ call' = [call EXCEPT ![p] =
                              Finished(c, Err(encryptedData.error))]
                /\ entropy' = entropy + 2
                /\ UNCHANGED <<wallets, walletIdCounter, dbFailures, clock>>
            ELSE \E fault \in WriteFaults, now \in Now :
                 \E r \in {create(mode, wallets, walletIdCounter,
                                  WalletData(c.userId, keypair,
                                             encryptedData.value),
                                  now, entropy + 2, fault)} :
                    /\ Failed(fault # "none")
                    /\ clock' = now
                    /\ wallets' = r.wallets
                    /\ walletIdCounter' = r.counter
                    /\ entropy' = entropy + (IF mode = "postgres" THEN 3 ELSE 2)
                    /\ call' = [call EXCEPT ![p] =
                                  IF r.ok
                                  THEN [c EXCEPT !.pc = "create_stored",
                                                 !.wallet = r.value,
                                                 !.keypair = keypair]
                                  ELSE Finished(c, Err(r.error))]
    /\ UNCHANGED <<crossmintVars, defindexVars, mode, deployment, instances, logs, calls, cipher>>

createWalletForUserStore(p) ==
    LET c == call[p]
        keypair == KeypairRandom(entropy)
    IN
    /\ c.pc = "create_found"
    /\ IF ~ c.wallet.ok THEN
            /\ call' = [call EXCEPT ![p] = Finished(c, Err(c.wallet.error))]
            /\ UNCHANGED <<wallets, walletIdCounter, entropy, dbFailures, clock>>
       ELSE IF c.wallet.value # NULL THEN
            /\ call' = [call EXCEPT ![p] =
                          Finished(c, Ok(CreateWalletResult(c.wallet.value)))]
            /\ UNCHANGED <<wallets, walletIdCounter, entropy, dbFailures, clock>>
       ELSE \E encryptedData \in {encryptSecretKey(instances[c.svc].masterKey,
                                                   keypair.secret,
                                                   randomBytes(entropy + 1))} :
            IF ~ encryptedData.ok THEN
                /\ call' = [call EXCEPT ![p] =
                              Finished(c, Err(encryptedData.error))]
                /\ entropy' = entropy + 2
                /\ UNCHANGED <<wallets, walletIdCounter, dbFailures, clock>>
            ELSE \E fault \in WriteFaults, now \in Now :
                 \E r \in {create(mode, wallets, walletIdCounter,
                                  WalletData(c.userId, keypair,
                                             encryptedData.value),
                                  now, entropy + 2, fault)} :
                    /\ Failed(fault # "none")
                    /\ clock' = now
                    /\ wallets' = r.wallets
                    /\ walletIdCounter' = r.counter
                    /\ entropy' = entropy + (IF mode = "postgres" THEN 3 ELSE 2)
                    /\ call' = [call EXCEPT ![p] =
                                  IF r.ok
                                  THEN [c EXCEPT !.pc = "create_stored",
                                                 !.wallet = r.value,
                                                 !.keypair = keypair]
                                  ELSE Finished(c, Err(r.error))]
    /\ UNCHANGED <<crossmintVars, defindexVars, mode, deployment, instances, logs, calls, cipher>>

createWalletForUserReturn(p) ==
    LET c == call[p]
    IN
    /\ c.pc = "create_stored"
    /\ logs' = logs \cup {CreatedLog(c.userId, c.keypair)}
    /\ call' = [call EXCEPT ![p] = Finished(c, Ok(CreateWalletResult(c.wallet)))]
    /\ UNCHANGED <<crossmintVars, defindexVars, mode, deployment, instances, wallets, walletIdCounter, clock,
                   entropy, calls, dbFailures, cipher>>

\* ------------------------------------------------------------------------
\* createWalletForUser in demo mode: no await, the hardcoded testnet secret
\* ------------------------------------------------------------------------
DEMO_SECRET_KEY ==
    IF envDemoSecretKey # NoString THEN envDemoSecretKey ELSE <<83, 90>>

createWalletForUserDemo(p, s, userId) ==
    LET existing == FirstOf(wallets, userId)
        keypair == KeypairFromSecret(DEMO_SECRET_KEY)
        c == Started(p, s, "create", userId, "tx", "idle", NULL)
    IN
    /\ mode = "demo"
    /\ CanStart(p, s, userId, "create")
    /\ Counted("create")
    /\ IF existing # NULL THEN
            /\ call' = [call EXCEPT ![p] =
                          Finished(c, Ok(CreateWalletResult(existing)))]
            /\ UNCHANGED <<wallets, entropy, logs, clock>>
       ELSE IF ~ keypair.ok THEN
            /\ call' = [call EXCEPT ![p] = Finished(c, Err(keypair.error))]
            /\ UNCHANGED <<wallets, entropy, logs, clock>>
       ELSE \E encryptedData \in {encryptSecretKey(instances[s].masterKey,
                                                   keypair.value.secret,
                                                   randomBytes(entropy))} :
            IF ~ encryptedData.ok THEN
                /\ call' = [call EXCEPT ![p] =
                              Finished(c, Err(encryptedData.error))]
                /\ entropy' = entropy + 1
                /\ UNCHANGED <<wallets, logs, clock>>
            ELSE \E idTime \in Now : \E createdAt \in NowAfter(idTime) :
                 \E lastUsed \in NowAfter(createdAt) :
                 \E mockWallet \in
                        {NewRecord(<<"mock-wallet", idTime>>,
                                   WalletData(userId, keypair.value,
                                              encryptedData.value),
                                   createdAt, lastUsed)} :
                    /\ clock' = lastUsed
                    /\ wallets' = Append(wallets, mockWallet)
                    /\ entropy' = entropy + 1
                    /\ logs' = logs \cup {CreatedLog(userId, keypair.value)}
                    /\ call' = [call EXCEPT ![p] =
                                  Finished(c, Ok(CreateWalletResult(mockWallet)))]
    /\ UNCHANGED <<crossmintVars, defindexVars, mode, deployment, instances, walletIdCounter, dbFailures, cipher>>

\* ------------------------------------------------------------------------
\* getUserStellarAddress and getUserWallet
\* ------------------------------------------------------------------------
\* The lookup result handed on without the "if (!wallet) throw" of
\* getUserWallet: a missing record surfaces when it is decrypted.
ReadResultUnchecked(op, found) ==
    IF ~ found.ok THEN Err(found.error)
    ELSE IF found.value = NULL
        THEN Err("Unsupported state or unable to authenticate data")
    ELSE IF op = "address" THEN Ok(found.value.stellarPublicKey)
    ELSE Ok(found.value)

\* getUserStellarAddress answering a missing record with an empty address.
ReadResultEmptyAddress(op, found) ==
    IF ~ found.ok THEN Err(found.error)
    ELSE IF found.value = NULL
        THEN (IF op = "address" THEN Ok(NoString) ELSE Err(NoWalletFound))
    ELSE IF op = "address" THEN Ok(found.value.stellarPublicKey)
    ELSE Ok(found.value)

\* What the read returns once its lookup has resolved.
ReadResult(op, found) ==
    IF ~ found.ok THEN Err(found.error)
    ELSE IF found.value = NULL THEN Err(NoWalletFound)
    ELSE IF op = "address" THEN Ok(found.value.stellarPublicKey)
    ELSE Ok(found.value)

\* Over prisma the lookup is awaited; in demo mode it is a Map.get.
ReadBegin(p, s, userId, op) ==
    IF mode = "demo"
    THEN /\ call' = [call EXCEPT ![p] =
            Finished(Started(p, s, op, userId, "tx", "idle", NULL),
                     ReadResult(op, findUnique(wallets, userId, FALSE)))]
         /\ UNCHANGED dbFailures
    ELSE \E fail \in DbFails :
         /\ Failed(fail)
         /\ call' = [call EXCEPT ![p] =
            Started(p, s, op, userId, "tx", "read_found",
                    findUnique(wallets, userId, fail))]

Read(p, s, userId, op) ==
    /\ CanStart(p, s, userId, "read")
    /\ Counted("read")
    /\ ReadBegin(p, s, userId, op)
    /\ UNCHANGED <<crossmintVars, defindexVars, mode, deployment, instances, wallets, walletIdCounter, clock,
                   entropy, logs, cipher>>

getUserStellarAddress(p, s, userId) == Read(p, s, userId, "address")

getUserWallet(p, s, userId) == Read(p, s, userId, "wallet")

\* What a lookup that resolved earlier shows now.  The in-memory database
\* hands out the object it stores and update writes into that object, so
\* the holder sees every later write for as long as the Map keeps the entry
\* (the field detached marks an object the Map has dropped); a database
\* server hands out a copy.
Live(found, ws) ==
    IF mode = "mock" /\ found.ok /\ found.value # NULL
       /\ "detached" \notin DOMAIN found
       /\ \E i \in 1..Len(ws) : ws[i].id = found.value.id
    THEN Ok(ws[CHOOSE i \in 1..Len(ws) : ws[i].id = found.value.id])
    ELSE found

\* Array.from(vaultBalances.values()).find((b) => b.userId === userId):
\* the position of the first balance of the user, 0 when there is none.
FirstBalanceOf(balances, userId) ==
    LET found == {i \in 1..Len(balances) : balances[i].userId = userId}
    IN  IF found = {} THEN 0
        ELSE CHOOSE i \in found : \A j \in found : i <= j

\* What a balance lookup that resolved earlier shows now: the in-memory
\* database hands out the object it stores, and update and upsert write
\* into that object.
LiveBalance(found, balances) ==
    IF mode = "mock" /\ found.ok /\ found.value # NULL
       /\ "detached" \notin DOMAIN found
       /\ FirstBalanceOf(balances, found.value.userId) # 0
    THEN Ok(balances[FirstBalanceOf(balances, found.value.userId)])
    ELSE found

\* The await on findUnique resumes: not found throws, found returns.
readReturn(p) ==
    /\ call[p].pc = "read_found"
    /\ call' = [call EXCEPT ![p] =
                  Finished(call[p],
                           ReadResult(call[p].op, Live(call[p].wallet, wallets)))]
    /\ UNCHANGED <<crossmintVars, defindexVars, mode, deployment, instances, wallets, walletIdCounter, clock,
                   entropy, logs, calls, dbFailures, cipher>>

\* ------------------------------------------------------------------------
\* getKeypairForUser and signTransactionForUser
\* ------------------------------------------------------------------------
\* getKeypairForUser called directly: getUserWallet runs up to its lookup.
getKeypairForUser(p, s, userId) ==
    /\ CanStart(p, s, userId, "sign")
    /\ Counted("sign")
    /\ \E fail \in DbFails :
        /\ Failed(fail)
        /\ call' = [call EXCEPT ![p] =
                      Started(p, s, "keypair", userId, "tx", "keypair_found",
                              findUnique(wallets, userId, fail))]
    /\ UNCHANGED <<crossmintVars, defindexVars, mode, deployment, instances, wallets, walletIdCounter, clock,
                   entropy, logs, cipher>>

\* signTransactionForUser up to its first await (the SDK import).
signTransactionForUserBegin(p, s, userId, xdr) ==
    call' = [call EXCEPT ![p] =
                Started(p, s, "sign", userId, xdr, "sign_import", NULL)]

signTransactionForUser(p, s, userId, xdr) ==
    /\ CanStart(p, s, userId, "sign")
    /\ Counted("sign")
    /\ signTransactionForUserBegin(p, s, userId, xdr)
    /\ UNCHANGED <<crossmintVars, defindexVars, mode, deployment, instances, wallets, walletIdCounter, clock,
                   entropy, logs, dbFailures, cipher>>

\* Callers that sign side by side: either may start a signing call while
\* fewer than MaxRacingSigns have been started.
signTransactionForUserRacing(p, s, userId, xdr) ==
    /\ call[p].pc \in {"idle", "done"}
    /\ instances[s] # NULL
    /\ calls["sign"] < MaxRacingSigns
    /\ Counted("sign")
    /\ signTransactionForUserBegin(p, s, userId, xdr)
    /\ UNCHANGED <<crossmintVars, defindexVars, mode, deployment, instances,
                   wallets, walletIdCounter, clock, entropy, logs, dbFailures,
                   cipher>>

\* ... which then calls getKeypairForUser.
signTransactionForUserFetch(p) ==
    /\ call[p].pc = "sign_import"
    /\ \E fail \in DbFails :
        /\ Failed(fail)
        /\ call' = [call EXCEPT ![p] =
                      [@ EXCEPT !.pc = "keypair_found",
                                !.wallet = findUnique(wallets, call[p].userId, fail)]]
    /\ UNCHANGED <<crossmintVars, defindexVars, mode, deployment, instances, wallets, walletIdCounter, clock,
                   entropy, logs, calls, cipher>>

\* getKeypairForUser writing lastUsed as soon as the record is found, before
\* it decrypts.
getKeypairForUserTouchFirst(p) ==
    LET c == call[p]
        wallet == c.wallet.value
    IN
    /\ c.pc = "keypair_found"
    /\ IF ~ ReadResult("wallet", c.wallet).ok THEN
            /\ call' = [call EXCEPT ![p] =
                          Finished(c, ReadResult("wallet", c.wallet))]
            /\ UNCHANGED <<wallets, dbFailures, clock>>
       ELSE \E secretKey \in {decryptSecretKey(instances[c.svc].masterKey,
                                               wallet.encryptedSecretKey,
                                               wallet.encryptionIv,
                                               wallet.encryptionTag)} :
            \E fault \in (IF mode = "demo" THEN {"none"} ELSE WriteFaults), now \in Now :
            \E r \in {IF mode = "demo"
                      THEN [ok |-> TRUE,
                            wallets |-> demoTouch(wallets, c.userId, now)]
                      ELSE update(wallets, wallet.id, now, fault)} :
                /\ Failed(fault # "none")
                /\ clock' = now
                /\ wallets' = r.wallets
                /\ call' = [call EXCEPT ![p] =
                              IF ~ r.ok THEN Finished(c, Err(r.error))
                              ELSE IF ~ secretKey.ok
                                  THEN Finished(c, Err(secretKey.error))
                              ELSE IF ~ KeypairFromSecret(secretKey.value).ok
                                  THEN Finished(c,
                                        Err(KeypairFromSecret(secretKey.value).error))
                              ELSE [c EXCEPT !.pc = "keypair_ready",
                                             !.wallet = NULL,
                                             !.keypair =
                                                KeypairFromSecret(secretKey.value).value]]
    /\ UNCHANGED <<crossmintVars, defindexVars, mode, deployment, instances,
                   walletIdCounter, entropy, logs, calls, cipher>>

\* getKeypairForUser after getUserWallet: decrypt, Keypair.fromSecret,
\* update lastUsed.
getKeypairForUserDecrypt(p) ==
    LET c == call[p]
        wallet == c.wallet.value
    IN
    /\ c.pc = "keypair_found"
    /\ IF ~ ReadResult("wallet", c.wallet).ok THEN
            /\ call' = [call EXCEPT ![p] =
                          Finished(c, ReadResult("wallet", c.wallet))]
            /\ UNCHANGED <<wallets, dbFailures, clock>>
       ELSE \E secretKey \in {decryptSecretKey(instances[c.svc].masterKey,
                                               wallet.encryptedSecretKey,
                                               wallet.encryptionIv,
                                               wallet.encryptionTag)} :
            IF ~ secretKey.ok THEN
                /\ call' = [call EXCEPT ![p] = Finished(c, Err(secretKey.error))]
                /\ UNCHANGED <<wallets, dbFailures, clock>>
            ELSE \E keypair \in {KeypairFromSecret(secretKey.value)} :
            IF ~ keypair.ok THEN
                /\ call' = [call EXCEPT ![p] = Finished(c, Err(keypair.error))]
                /\ UNCHANGED <<wallets, dbFailures, clock>>
            ELSE IF mode = "demo" THEN
                \E now \in Now :
                    /\ clock' = now
                    /\ wallets' = demoTouch(wallets, c.userId, now)
                    /\ call' = [call EXCEPT ![p] =
                                  [c EXCEPT !.pc = "keypair_ready",
                                            !.wallet = NULL,
                                            !.keypair = keypair.value]]
                    /\ UNCHANGED dbFailures
            ELSE \E fault \in WriteFaults, now \in Now :
                 \E r \in {update(wallets, wallet.id, now, fault)} :
                    /\ Failed(fault # "none")
                    /\ clock' = now
                    /\ wallets' = r.wallets
                    /\ call' = [call EXCEPT ![p] =
                                  IF r.ok
                                  THEN [c EXCEPT !.pc = "keypair_ready",
                                                 !.wallet = NULL,
                                                 !.keypair = keypair.value]
                                  ELSE Finished(c, Err(r.error))]
    /\ UNCHANGED <<crossmintVars, defindexVars, mode, deployment, instances, walletIdCounter, entropy,
                   logs, calls, cipher>>

\* getKeypairForUser returns the Keypair to its caller.
getKeypairForUserReturn(p) ==
    /\ call[p].pc = "keypair_ready"
    /\ call[p].op = "keypair"
    /\ call' = [call EXCEPT ![p] = Finished(call[p], Ok(call[p].keypair))]
    /\ UNCHANGED <<crossmintVars, defindexVars, mode, deployment, instances, wallets, walletIdCounter, clock,
                   entropy, logs, calls, dbFailures, cipher>>

\* signTransactionForUser signing with a signer the callers share: the
\* Keypair another call has decrypted and not yet used, when there is one.
signTransactionForUserSignShared(p) ==
    LET c == call[p]
        transaction == TransactionFromXDR(c.xdr)
        others == {q \in Procs \ {p} : call[q].pc = "keypair_ready"}
        signer == IF others = {} THEN c.keypair
                  ELSE call[CHOOSE q \in others : TRUE].keypair
    IN
    /\ c.pc = "keypair_ready"
    /\ c.op = "sign"
    /\ IF ~ transaction.ok THEN
            /\ call' = [call EXCEPT ![p] = Finished(c, Err(transaction.error))]
            /\ UNCHANGED logs
       ELSE /\ call' = [call EXCEPT ![p] =
                          Finished(c, Ok(TransactionSign(transaction.value,
                                                         signer)))]
            /\ logs' = logs \cup {SignedLog(c.userId, signer)}
    /\ UNCHANGED <<crossmintVars, defindexVars, mode, deployment, instances,
                   wallets, walletIdCounter, clock, entropy, calls, dbFailures,
                   cipher>>

\* signTransactionForUser with the Keypair: fromXDR, sign, log, toXDR.
signTransactionForUserSign(p) ==
    LET c == call[p]
        transaction == TransactionFromXDR(c.xdr)
    IN
    /\ c.pc = "keypair_ready"
    /\ c.op = "sign"
    /\ IF ~ transaction.ok THEN
            /\ call' = [call EXCEPT ![p] = Finished(c, Err(transaction.error))]
            /\ UNCHANGED logs
       ELSE /\ call' = [call EXCEPT ![p] =
                          Finished(c, Ok(TransactionSign(transaction.value,
                                                         c.keypair)))]
            /\ logs' = logs \cup {SignedLog(c.userId, c.keypair)}
    /\ UNCHANGED <<crossmintVars, defindexVars, mode, deployment, instances, wallets, walletIdCounter, clock,
                   entropy, calls, dbFailures, cipher>>

\* ------------------------------------------------------------------------
\* The key store
\* ------------------------------------------------------------------------
NoCipher == [phase |-> "unused"]

InitKeyStore(envKeys) ==
    /\ mode \in Modes
    /\ envKey \in envKeys
    /\ envDemoSecretKey \in (IF mode = "demo" THEN DemoSecretKeys ELSE {NoString})
    /\ instances = [s \in Services |-> NULL]
    /\ wallets = <<>>
    /\ walletIdCounter = 1
    /\ clock = 0
    /\ entropy = 0
    /\ logs = {}
    /\ calls = [k \in CallKinds |-> 0]
    /\ dbFailures = 0
    /\ call = [p \in Procs |-> IdleCall]
    /\ cipher = NoCipher
    /\ InitCollaborators

InitWith(envKeys) ==
    /\ InitKeyStore(envKeys)
    /\ defindexBuild = "prisma"

\* The methods callers invoke on service s.
Calls(p, s) ==
    \/ \E u \in Users : createWalletForUser(p, s, u)
    \/ \E u \in Users : createWalletForUserDemo(p, s, u)
    \/ \E u \in Users : getUserStellarAddress(p, s, u)
    \/ \E u \in Users : getUserWallet(p, s, u)
    \/ \E u \in Users : getKeypairForUser(p, s, u)
    \/ \E u \in Users, x \in Xdrs : signTransactionForUser(p, s, u, x)

\* The continuations of the call of p.
Resumes(p) ==
    \/ createWalletForUserStore(p)
    \/ createWalletForUserReturn(p)
    \/ readReturn(p)
    \/ signTransactionForUserFetch(p)
    \/ getKeypairForUserDecrypt(p)
    \/ getKeypairForUserReturn(p)
    \/ signTransactionForUserSign(p)

\* Concurrent callers of the singleton, its key taken from the environment.
Init == InitWith({KeyHexA})

Next ==
    \/ getStellarWalletService(NoString)
    \/ \E p \in Procs : Calls(p, "singleton")
    \/ \E p \in Procs : Resumes(p)

Spec == Init /\ [][Next]_vars

\* Sequential calls on two instances whose master keys may differ or be
\* malformed.
InitInstances == InitWith({NoString, KeyHexA})

NextInstances ==
    \/ \E k \in {NoString, KeyHexNotHex} : getStellarWalletService(k)
    \/ \E k \in {KeyHexB, KeyHexShort} : newStellarWalletService(k)
    \/ \E s \in Services : Calls("p1", s)
    \/ Resumes("p1")

SpecInstances == InitInstances /\ [][NextInstances]_vars

\* ------------------------------------------------------------------------
\* The envelope cipher on its own: encrypt a drawn input, decrypt the result
\* ------------------------------------------------------------------------
MaxIvDraw == 1

\* Characters of one, two, three and four bytes of UTF-8 (the last a
\* surrogate pair), and a high and a low surrogate on their own.
PlainChars == {<<83>>, <<65>>, <<233>>, <<8364>>, <<55357, 56832>>}

LoneSurrogates == {<<55357>>, <<56832>>}

RECURSIVE StringsOf(_, _)
StringsOf(chars, n) ==
    IF n = 0 THEN {<<>>}
    ELSE {c \o t : c \in chars, t \in StringsOf(chars, n - 1)}

\* The strings without an unpaired surrogate, and all strings.
WellFormedPlaintexts == UNION {StringsOf(PlainChars, n) : n \in 1..MaxPlainChars}

Plaintexts ==
    UNION {StringsOf(PlainChars \cup LoneSurrogates, n) : n \in 1..MaxPlainChars}

CipherKeys == {KnownKeys[n] : n \in 1..Len(KnownKeys)}

TamperKeys == {KnownKeys[n] : n \in 1..3}

\* The cipher about to be applied to a key of keys and a string of texts.
CipherInitOver(keys, texts) ==
    /\ mode = "mock"
    /\ envKey = NoString
    /\ envDemoSecretKey = NoString
    /\ defindexBuild = "prisma"
    /\ instances = [s \in Services |-> NULL]
    /\ wallets = <<>>
    /\ walletIdCounter = 1
    /\ clock = 0
    /\ entropy = 0
    /\ logs = {}
    /\ calls = [k \in CallKinds |-> 0]
    /\ dbFailures = 0
    /\ call = [p \in Procs |-> IdleCall]
    /\ InitCollaborators
    /\ \E k \in keys, t \in texts, n \in 0..MaxIvDraw :
        cipher = [phase |-> "input", masterKey |-> k, secretKey |-> t,
                  iv |-> randomBytes(n), encryptedData |-> NULL,
                  decrypted |-> NULL]

CipherInit == CipherInitOver(CipherKeys, Plaintexts)

TamperInit == CipherInitOver(TamperKeys, WellFormedPlaintexts)

CipherEncrypt ==
    /\ cipher.phase = "input"
    /\ cipher' = [cipher EXCEPT
                    !.phase = "encrypted",
                    !.encryptedData =
                        encryptSecretKey(cipher.masterKey, cipher.secretKey,
                                         cipher.iv).value]
    /\ UNCHANGED <<crossmintVars, defindexVars, mode, deployment, instances, wallets, walletIdCounter, clock,
                   entropy, logs, calls, dbFailures, call>>

CipherDecrypt ==
    /\ cipher.phase = "encrypted"
    /\ cipher' = [cipher EXCEPT
                    !.phase = "decrypted",
                    !.decrypted =
                        decryptSecretKey(cipher.masterKey,
                                         cipher.encryptedData.encrypted,
                                         cipher.encryptedData.iv,
                                         cipher.encryptedData.tag)]
    /\ UNCHANGED <<crossmintVars, defindexVars, mode, deployment, instances, wallets, walletIdCounter, clock,
                   entropy, logs, calls, dbFailures, call>>

CipherNext == CipherEncrypt \/ CipherDecrypt

SpecCipher == CipherInit /\ [][CipherNext]_vars

\* ------------------------------------------------------------------------
\* The envelope cipher given a stored blob that was altered, or another key
\* ------------------------------------------------------------------------
MaxFlipBit == 6

\* Character c with bit number b inverted.
FlipBit(c, b) ==
    IF (c \div (2 ^ b)) % 2 = 1 THEN c - 2 ^ b ELSE c + 2 ^ b

StoredFields == {"encrypted", "iv", "tag"}

\* One bit of one character of one stored hex string is inverted.
CipherTamper ==
    /\ cipher.phase = "encrypted"
    /\ \E f \in StoredFields :
        \E i \in 1..Len(cipher.encryptedData[f]), b \in 0..MaxFlipBit :
            cipher' = [phase |-> "tampered",
                       masterKey |-> cipher.masterKey,
                       secretKey |-> cipher.secretKey,
                       encryptedData |-> cipher.encryptedData,
                       field |-> f,
                       stored |-> [cipher.encryptedData EXCEPT
                                      ![f][i] = FlipBit(@, b)],
                       decrypted |-> NULL]
    /\ UNCHANGED <<crossmintVars, defindexVars, mode, deployment, instances, wallets, walletIdCounter, clock,
                   entropy, logs, calls, dbFailures, call>>

\* decryptSecretKey on the altered blob, under the key that encrypted it.
CipherDecryptTampered ==
    /\ cipher.phase = "tampered"
    /\ cipher' = [cipher EXCEPT
                    !.phase = "checked",
                    !.decrypted =
                        decryptSecretKey(cipher.masterKey,
                                         cipher.stored.encrypted,
                                         cipher.stored.iv,
                                         cipher.stored.tag)]
    /\ UNCHANGED <<crossmintVars, defindexVars, mode, deployment, instances, wallets, walletIdCounter, clock,
                   entropy, logs, calls, dbFailures, call>>

\* decryptSecretKey on the untouched blob, by a service holding another key.
CipherDecryptOtherKey ==
    /\ cipher.phase = "encrypted"
    /\ \E k \in CipherKeys \ {cipher.masterKey} :
        cipher' = [phase |-> "otherkey",
                   masterKey |-> cipher.masterKey,
                   secretKey |-> cipher.secretKey,
                   encryptedData |-> cipher.encryptedData,
                   otherKey |-> k,
                   decrypted |->
                       decryptSecretKey(k, cipher.encryptedData.encrypted,
                                        cipher.encryptedData.iv,
                                        cipher.encryptedData.tag)]
    /\ UNCHANGED <<crossmintVars, defindexVars, mode, deployment, instances, wallets, walletIdCounter, clock,
                   entropy, logs, calls, dbFailures, call>>

TamperNext ==
    \/ CipherEncrypt
    \/ CipherDecrypt
    \/ CipherTamper
    \/ CipherDecryptTampered

SpecTamper == TamperInit /\ [][TamperNext]_vars

OtherKeyNext ==
    \/ CipherEncrypt
    \/ CipherDecrypt
    \/ CipherDecryptOtherKey

SpecOtherKey == CipherInit /\ [][OtherKeyNext]_vars

\* ------------------------------------------------------------------------
\* Properties of the key store
\* ------------------------------------------------------------------------
\* Every plaintext secret key the store has generated or been given.
GeneratedSecrets == {SecretOfDraw(n) : n \in 0..entropy} \cup {DEMO_SECRET_KEY}

RecordStrings(w) ==
    {w.stellarPublicKey, w.encryptedSecretKey, w.encryptionIv, w.encryptionTag}

\* The strings a finished call handed to its caller.
ReturnedStrings(c) ==
    IF c.pc # "done" \/ ~ c.result.ok THEN {}
    ELSE IF c.op = "create" THEN {c.result.value.stellarPublicKey}
    ELSE IF c.op = "address" THEN {c.result.value}
    ELSE IF c.op = "wallet" THEN RecordStrings(c.result.value)
    ELSE IF c.op = "keypair"
        THEN {c.result.value.publicKey, c.result.value.secret}
    ELSE {c.result.value.signatures[i].verifiesAgainst :
              i \in 1..Len(c.result.value.signatures)}

DoneOk(p, op) ==
    call[p].pc = "done" /\ call[p].op = op /\ call[p].result.ok

\* Caller p took this step.
Moved(p) == call'[p] # call[p]

AuthenticationFailure == "Unsupported state or unable to authenticate data"

\* C1: in every reachable state the store holds at most one wallet record
\* per userId, whatever the interleaving of createWalletForUser calls.
OneWalletPerUser ==
    \A i, j \in 1..Len(wallets) :
        wallets[i].userId = wallets[j].userId => i = j

\* C2: when createWalletForUser calls for the same userId race, no caller
\* is failed by the userId uniqueness violation and all of them are given
\* the same publicKey.
RacingCreatesAgree ==
    \A p, q \in Procs :
        /\ (call[p].pc = "done" /\ call[p].op = "create" /\ ~ call[p].result.ok)
            => call[p].result.error #
                   "Unique constraint failed on the fields: (user_id)"
        /\ (DoneOk(p, "create") /\ DoneOk(q, "create")
                /\ call[p].userId = call[q].userId)
            => call[p].result.value.stellarPublicKey =
                   call[q].result.value.stellarPublicKey

\* The record a lookup of the user of p's call finds in the store.
Existing(p) == FirstOf(wallets, call'[p].userId)

\* This step is a whole createWalletForUser call of p in demo mode, which
\* has no await.
CreateCompletes(p) ==
    /\ mode = "demo"
    /\ calls'["create"] # calls["create"]
    /\ call'[p].pc = "done"
    /\ call'[p].op = "create"
    /\ \A q \in Procs \ {p} : call'[q] = call[q]

\* The lookup of p's call has resolved and found a record.
FoundExisting(p) ==
    call[p].wallet # NULL /\ call[p].wallet.ok /\ call[p].wallet.value # NULL

\* C3: called one after the other, a createWalletForUser for a user who
\* already has a record finds that record, returns its publicKey and
\* walletId, draws no new keypair and leaves the stored records as they
\* were.
IdempotentCreate ==
    [][\A p \in Procs :
        /\ (call[p].pc \in {"idle", "done"} /\ call'[p].pc = "create_found"
                /\ call'[p].wallet.ok)
            => call'[p].wallet.value = Existing(p) /\ wallets' = wallets
        /\ (call[p].pc = "create_found" /\ Moved(p) /\ FoundExisting(p))
            => /\ call'[p].pc = "done"
               /\ call'[p].result = Ok(CreateWalletResult(call[p].wallet.value))
               /\ wallets' = wallets
               /\ entropy' = entropy
               /\ walletIdCounter' = walletIdCounter
        /\ (CreateCompletes(p) /\ Existing(p) # NULL)
            => /\ call'[p].result = Ok(CreateWalletResult(Existing(p)))
               /\ wallets' = wallets
               /\ entropy' = entropy]_vars

\* One creation's worth of random draws in the running mode.
DrawsOfOneCreate ==
    IF mode = "demo" THEN 1 ELSE IF mode = "postgres" THEN 3 ELSE 2

\* A second create for the same user has returned the one stored record.
IdempotentCreateWitness ==
    /\ DoneOk("p1", "create")
    /\ calls["create"] = 2
    /\ dbFailures = 0
    /\ entropy = DrawsOfOneCreate
    /\ Len(wallets) = 1
    /\ wallets[1].userId = call["p1"].userId
    /\ call["p1"].result = Ok(CreateWalletResult(wallets[1]))

\* C4: a transaction signed for a user verifies against the publicKey
\* createWalletForUser returned for that user.
SignedWithCreatedKey ==
    \A p, q \in Procs :
        (DoneOk(p, "sign") /\ DoneOk(q, "create")
            /\ call[p].userId = call[q].userId)
        => ReturnedStrings(call[p]) = ReturnedStrings(call[q])

\* C5: no stored record, log line or service field holds a plaintext secret
\* key, and a signing call that has completed has kept none: its locals are
\* gone and what it returned holds no secret.
NoPlaintextAtRest ==
    /\ \A i \in 1..Len(wallets) : RecordStrings(wallets[i]) \cap GeneratedSecrets = {}
    /\ \A l \in logs : l.text \notin GeneratedSecrets
    /\ \A s \in Services : instances[s] # NULL => DOMAIN instances[s] = {"masterKey"}
    /\ \A p \in Procs :
        (call[p].pc = "done" /\ call[p].op = "sign")
            => /\ call[p].keypair = NULL
               /\ call[p].wallet = NULL
               /\ ReturnedStrings(call[p]) \cap GeneratedSecrets = {}

\* A signing call has completed with a signed transaction.
NoPlaintextAtRestWitness ==
    \E p \in Procs :
        /\ DoneOk(p, "sign")
        /\ Len(call[p].result.value.signatures) = 1
        /\ \E l \in logs : l.event = "Signed transaction"

\* C6: no operation a caller can invoke returns a plaintext secret key or
\* an object from which it can be read.
NoCallReturnsSecret ==
    \A p \in Procs : ReturnedStrings(call[p]) \cap GeneratedSecrets = {}

\* The lookup of p's call has resolved and found no record.
FoundNothing(p) ==
    call[p].wallet # NULL /\ call[p].wallet.ok /\ call[p].wallet.value = NULL

\* C7: signTransactionForUser for a user with no record fails with the
\* not-found error: the lookup of an absent user finds nothing, the call
\* then ends with that error before anything is decrypted, returns no
\* signed transaction and leaves the stored records as they were.
SignWithoutWalletFails ==
    [][\A p \in Procs :
        /\ (call[p].pc = "sign_import" /\ Moved(p) /\ call'[p].wallet.ok
                /\ FirstOf(wallets, call[p].userId) = NULL)
            => call'[p].wallet.value = NULL /\ wallets' = wallets
        /\ (call[p].pc = "keypair_found" /\ call[p].op = "sign" /\ Moved(p)
                /\ FoundNothing(p))
            => /\ call'[p].pc = "done"
               /\ call'[p].result = Err(NoWalletFound)
               /\ wallets' = wallets]_vars

SignWithoutWalletFailsWitness ==
    \E p \in Procs :
        /\ call[p].pc = "done"
        /\ call[p].op = "sign"
        /\ call[p].result = Err(NoWalletFound)
        /\ FirstOf(wallets, call[p].userId) = NULL

\* The stored tag of the record p's call fetched is not the tag of its
\* ciphertext and IV under the master key of the service called.
TagMismatch(p) ==
    LET w == call[p].wallet.value
    IN  BufferFromHex(w.encryptionTag) #
            GcmTag(instances[call[p].svc].masterKey,
                   BufferFromHex(w.encryptionIv),
                   BufferFromHex(w.encryptedSecretKey))

\* C8: a signTransactionForUser call any of whose steps fails (lookup,
\* decryption, lastUsed update, parsing and signing) ends in an error and
\* returns no signed transaction; a record whose tag does not authenticate
\* ends the call with the authentication error, with nothing written.
SignAborts ==
    [][\A p \in Procs :
        (call[p].op = "sign" /\ call[p].pc # "done" /\ Moved(p)) =>
            /\ (call[p].pc = "keypair_found" /\ ~ call[p].wallet.ok)
                => call'[p].pc = "done" /\ call'[p].result = Err(call[p].wallet.error)
            /\ (call[p].pc = "keypair_found" /\ FoundNothing(p))
                => call'[p].pc = "done" /\ ~ call'[p].result.ok
            /\ (call[p].pc = "keypair_found" /\ call[p].wallet.ok
                    /\ call[p].wallet.value # NULL
                    /\ Len(instances[call[p].svc].masterKey) = KeyBytes
                    /\ TagMismatch(p))
                => /\ call'[p].pc = "done"
                   /\ call'[p].result = Err(AuthenticationFailure)
                   /\ wallets' = wallets
            /\ (call[p].pc = "keypair_found" /\ dbFailures' # dbFailures)
                => call'[p].pc = "done" /\ ~ call'[p].result.ok
            /\ (call[p].pc = "keypair_ready" /\ ~ TransactionFromXDR(call[p].xdr).ok)
                => call'[p].pc = "done" /\ ~ call'[p].result.ok
            /\ (call'[p].pc = "done" /\ call'[p].result.ok)
                => /\ call[p].pc = "keypair_ready"
                   /\ Len(call'[p].result.value.signatures) = 1]_vars

\* A signing call has been failed by a record that does not authenticate
\* under the key of the service it was made on.
SignAbortsWitness ==
    \E p \in Procs :
        /\ call[p].pc = "done"
        /\ call[p].op = "sign"
        /\ call[p].result = Err(AuthenticationFailure)
        /\ FirstOf(wallets, call[p].userId) # NULL

\* C9: getUserStellarAddress is a pure read: no step of it creates a
\* record or changes a stored field, its lookup sees the stored record of
\* the user, and it returns that record's publicKey, or fails with the
\* not-found error when there is none.
AddressIsPureRead ==
    [][\A p \in Procs :
        (call'[p].op = "address" /\ Moved(p)) =>
            /\ wallets' = wallets
            /\ walletIdCounter' = walletIdCounter
            /\ entropy' = entropy
            /\ logs' = logs
            /\ (call'[p].pc = "read_found" /\ call'[p].wallet.ok)
                => call'[p].wallet.value = Existing(p)
            /\ call'[p].pc = "done" =>
                LET found == IF call[p].pc = "read_found" THEN call[p].wallet
                             ELSE Ok(Existing(p))
                IN  found.ok =>
                        call'[p].result =
                            IF found.value = NULL THEN Err(NoWalletFound)
                            ELSE Ok(found.value.stellarPublicKey)]_vars

\* An address read has returned the stored publicKey of its user.
AddressIsPureReadWitness ==
    \E p \in Procs :
        /\ DoneOk(p, "address")
        /\ FirstOf(wallets, call[p].userId) # NULL
        /\ call[p].result.value = FirstOf(wallets, call[p].userId).stellarPublicKey

\* No surrogate of s stands without its partner.
WellFormed(s) ==
    \A i \in 1..Len(s) :
        /\ IsHighSurrogate(s[i]) => (i < Len(s) /\ IsLowSurrogate(s[i + 1]))
        /\ IsLowSurrogate(s[i]) => (i > 1 /\ IsHighSurrogate(s[i - 1]))

\* s with U+FFFD in the place of each unpaired surrogate.
Scrubbed(s) ==
    [i \in 1..Len(s) |->
        IF (IsHighSurrogate(s[i]) /\ ~ (i < Len(s) /\ IsLowSurrogate(s[i + 1])))
            \/ (IsLowSurrogate(s[i]) /\ ~ (i > 1 /\ IsHighSurrogate(s[i - 1])))
        THEN 65533 ELSE s[i]]

\* C10: decrypting what encryptSecretKey produced, under the same 32-byte
\* master key, succeeds; it returns exactly the plaintext that was encrypted
\* when that is a well-formed string, and otherwise the plaintext with
\* U+FFFD in the place of each unpaired surrogate.
RoundTrip ==
    cipher.phase = "decrypted" =>
        /\ cipher.decrypted.ok
        /\ cipher.decrypted.value = Scrubbed(cipher.secretKey)
        /\ WellFormed(cipher.secretKey)
            => cipher.decrypted = Ok(cipher.secretKey)

\* A well-formed plaintext with a character of more than one byte has made
\* the trip.
RoundTripWitness ==
    /\ cipher.phase = "decrypted"
    /\ cipher.decrypted = Ok(cipher.secretKey)
    /\ WellFormed(cipher.secretKey)
    /\ Len(cipher.masterKey) = KeyBytes
    /\ Len(Utf8Encode(cipher.secretKey)) > Len(cipher.secretKey)
    /\ BufferFromHex(cipher.encryptedData.encrypted) # Utf8Encode(cipher.secretKey)

\* C10 as the specification states it: every non-empty plaintext comes back
\* as it was.
RoundTripOfAnyPlaintext ==
    (cipher.phase = "decrypted" /\ cipher.secretKey # <<>>)
        => cipher.decrypted = Ok(cipher.secretKey)

\* The bytes the altered stored field decodes to are not the original ones.
Altered ==
    BufferFromHex(cipher.stored[cipher.field]) #
        BufferFromHex(cipher.encryptedData[cipher.field])

\* C11: when the ciphertext, the IV or the tag of a valid encryption has
\* been altered, decryptSecretKey fails and returns no plaintext (the claim
\* asks for the authentication failure; any failure is let pass here).
TamperDetected ==
    (cipher.phase = "checked" /\ Altered) => ~ cipher.decrypted.ok

\* C12: decrypting under a 32-byte master key other than the one the
\* record was encrypted under fails with the authentication error.
WrongKeyRejected ==
    cipher.phase = "otherkey"
        => cipher.decrypted = Err(AuthenticationFailure)

\* A blob has been offered to another 32-byte key and refused.
WrongKeyRejectedWitness ==
    /\ cipher.phase = "otherkey"
    /\ Len(cipher.otherKey) = KeyBytes
    /\ cipher.otherKey # cipher.masterKey
    /\ ~ cipher.decrypted.ok
    /\ decryptSecretKey(cipher.masterKey, cipher.encryptedData.encrypted,
                        cipher.encryptedData.iv, cipher.encryptedData.tag)
           = Ok(cipher.secretKey)

\* C14: decryptSecretKey fails, returning no plaintext, whenever the IV it
\* is given is not 12 bytes or the tag it is given is not the full 16.
WrongLengthRejected ==
    (cipher.phase = "checked"
        /\ (Len(BufferFromHex(cipher.stored.iv)) # IvBytes
            \/ Len(BufferFromHex(cipher.stored.tag)) # TagBytes))
    => ~ cipher.decrypted.ok

\* C15: no service instance exists whose masterKey is not 32 bytes.
MasterKeyIs32Bytes ==
    \A s \in Services :
        instances[s] # NULL => Len(instances[s].masterKey) = KeyBytes

\* C17: no two records with different userId have the same publicKey.
PublicKeyUnique ==
    \A i, j \in 1..Len(wallets) :
        wallets[i].userId # wallets[j].userId
            => wallets[i].stellarPublicKey # wallets[j].stellarPublicKey

\* The IVs the random source has produced so far.
DrawnIvs == {BufferToHex(randomBytes(n)) : n \in 0..entropy}

\* C13: every stored record carries a 12-byte IV that encryptSecretKey drew
\* from the random source for that record alone: no two records carry the
\* same IV.
NonceNeverReused ==
    /\ \A i \in 1..Len(wallets) :
        /\ Len(BufferFromHex(wallets[i].encryptionIv)) = IvBytes
        /\ wallets[i].encryptionIv \in DrawnIvs
    /\ \A i, j \in 1..Len(wallets) :
        wallets[i].encryptionIv = wallets[j].encryptionIv => i = j

\* Two records have been encrypted by the same service.
NonceNeverReusedWitness ==
    /\ Len(wallets) >= 2
    /\ wallets[1].encryptionIv # wallets[2].encryptionIv
    /\ instances["direct"] = NULL

\* C16: a constructed service keeps its masterKey: no step writes it, and
\* getStellarWalletService, whatever key it is passed later, leaves the
\* singleton it constructed first in place.
MasterKeyNeverChanges ==
    [][\A s \in Services :
        instances[s] # NULL => instances'[s] = instances[s]]_vars

\* The singleton built from the environment key has created a wallet and
\* signed with it, and a second instance has been constructed meanwhile.
MasterKeyNeverChangesWitness ==
    /\ envKey = KeyHexA
    /\ instances["singleton"] = [masterKey |-> BufferFromHex(KeyHexA)]
    /\ instances["direct"] # NULL
    /\ DoneOk("p1", "sign")
    /\ call["p1"].svc = "singleton"

StorageFailure == "Can't reach database server"

\* C18: the persistence layer stores a new record only for a userId that
\* has no record yet.
InsertRejectsDuplicate ==
    [][Len(wallets') > Len(wallets)
        => FirstOf(wallets, wallets'[Len(wallets')].userId) = NULL]_vars

\* The step p takes is the insert of its createWalletForUser, and it fails.
InsertFailed(p) ==
    /\ call[p].pc = "create_found"
    /\ Moved(p)
    /\ FoundNothing(p)
    /\ Len(instances[call[p].svc].masterKey) = KeyBytes
    /\ call'[p].pc = "done"

InsertErrors ==
    {StorageFailure, "Unique constraint failed on the fields: (user_id)",
     "Unique constraint failed on the fields: (stellar_public_key)"}

\* The store holds a record of userId.
HasRecord(ws, userId) == \E i \in 1..Len(ws) : ws[i].userId = userId

\* Record w is whole: every column is there, and its ciphertext, IV and tag
\* decrypt under key to the secret key of its address.
WholeRecord(w, key) ==
    LET secretKey == decryptSecretKey(key, w.encryptedSecretKey, w.encryptionIv,
                                      w.encryptionTag)
    IN  /\ DOMAIN w = {"id", "userId", "stellarPublicKey", "encryptedSecretKey",
                       "encryptionIv", "encryptionTag", "createdAt", "lastUsed"}
        /\ secretKey.ok
        /\ KeypairFromSecret(secretKey.value) =
                Ok([publicKey |-> w.stellarPublicKey, secret |-> secretKey.value])

\* C19: when the insert of createWalletForUser fails, the call ends there
\* with the error of the insert, after one attempt (one keypair, one IV and
\* one row id drawn, at most one failure counted), and a failure of the
\* database connection always ends the call with the storage error.  The failed
\* insert has written nothing, or, when the error is the storage error and
\* the user had no record, one whole record of that user and nothing else;
\* a create that ends in an error without having tried the insert has
\* written nothing.
CreateFailurePropagates ==
    [][\A p \in Procs :
        (call[p].pc = "create_found" /\ Moved(p)) =>
            /\ dbFailures' # dbFailures
                => /\ call'[p].pc = "done"
                   /\ call'[p].result = Err(StorageFailure)
                   /\ dbFailures' = dbFailures + 1
            /\ InsertFailed(p)
                => /\ ~ call'[p].result.ok
                   /\ call'[p].result.error \in InsertErrors
                   /\ entropy' = entropy + 3
                   /\ dbFailures' \in {dbFailures, dbFailures + 1}
                   /\ walletIdCounter' = walletIdCounter
                   /\ \/ wallets' = wallets
                      \/ /\ call'[p].result = Err(StorageFailure)
                         /\ ~ HasRecord(wallets, call[p].userId)
                         /\ Len(wallets') = Len(wallets) + 1
                         /\ SubSeq(wallets', 1, Len(wallets)) = wallets
                         /\ wallets'[Len(wallets')].userId = call[p].userId
                         /\ WholeRecord(wallets'[Len(wallets')],
                                        instances[call[p].svc].masterKey)
            /\ (call'[p].pc = "done" /\ ~ call'[p].result.ok /\ ~ InsertFailed(p))
                => /\ wallets' = wallets
                   /\ walletIdCounter' = walletIdCounter]_vars

\* The one create made so far drew its keypair and IV, its insert failed,
\* and the store holds nothing.
CreateFailurePropagatesWitness ==
    /\ calls["create"] = 1
    /\ entropy = 3
    /\ wallets = <<>>
    /\ \E p \in Procs :
        /\ call[p].pc = "done"
        /\ call[p].op = "create"
        /\ call[p].result = Err(StorageFailure)

\* C19 as the specification states it: after a failed insert the store
\* holds no record of that user.
CreateFailureLeavesNoRecord ==
    [][\A p \in Procs :
        InsertFailed(p) => ~ HasRecord(wallets', call[p].userId)]_vars

\* C20: no step changes userId, publicKey, ciphertext, IV, tag, id or
\* createdAt of a stored record: lastUsed is the only field written.
OnlyLastUsedWritten ==
    [][\A i \in 1..Len(wallets) :
        i <= Len(wallets')
            => [wallets'[i] EXCEPT !.lastUsed = wallets[i].lastUsed]
                   = wallets[i]]_vars

\* A signing call has written lastUsed on a record created without one.
OnlyLastUsedWrittenWitness ==
    \E i \in 1..Len(wallets) :
        /\ mode # "demo"
        /\ wallets[i].lastUsed # NoDate
        /\ wallets[i].lastUsed >= wallets[i].createdAt

\* ------------------------------------------------------------------------
\* The key store with the in-memory database's reset among its operations
\* ------------------------------------------------------------------------
\* resetMockDatabase clears every Map of mock-db and puts its id counters
\* back to 1.  The Maps hold the records only when prisma is the mock.
\* An object a caller looked up stays as it is when the Map drops it.
HeldAcrossReset(found, live) ==
    IF mode = "mock" /\ "ok" \in DOMAIN found /\ found.ok
       /\ found.value # NULL
    THEN [ok |-> TRUE, value |-> live.value, detached |-> TRUE]
    ELSE found

resetMockDatabase ==
    /\ call' = [q \in Procs |->
        [call[q] EXCEPT !.wallet =
            HeldAcrossReset(@, IF "ok" \in DOMAIN @ THEN Live(@, wallets)
                               ELSE @)]]
    /\ flow' = [q \in Procs |->
        IF flow[q].pc = "balance"
        THEN [flow[q] EXCEPT !.awaited =
                HeldAcrossReset(@, LiveBalance(@, vaultBalances))]
        ELSE flow[q]]
    /\ wallets' = IF mode = "mock" THEN <<>> ELSE wallets
    /\ depositRecords' = IF mode = "mock" THEN <<>> ELSE depositRecords
    /\ vaultBalances' = IF mode = "mock" THEN <<>> ELSE vaultBalances
    /\ withdrawalRecords' = IF mode = "mock" THEN <<>> ELSE withdrawalRecords
    /\ walletIdCounter' = 1
    /\ UNCHANGED <<crossmintVars, network, mode, deployment, instances,
                   clock, entropy, logs, calls, dbFailures, cipher>>

\* One caller of the singleton, a second one that reads and signs, and the
\* reset between the steps of their calls.
NextReset ==
    \/ getStellarWalletService(NoString)
    \/ Calls("p1", "singleton")
    \/ Resumes("p1")
    \/ \E u \in Users : getUserWallet("p2", "singleton", u)
    \/ \E u \in Users : getKeypairForUser("p2", "singleton", u)
    \/ Resumes("p2")
    \/ resetMockDatabase

SpecReset == Init /\ [][NextReset]_vars

\* C21: per userId the record lifecycle is NONEXISTENT then ACTIVE and
\* nothing else: a user that has a record before a step has one after it,
\* whatever the step is, and a step of signTransactionForUser neither adds
\* nor removes a record.
RecordIsNeverRemoved ==
    [][/\ \A u \in Users :
            FirstOf(wallets, u) # NULL => FirstOf(wallets', u) # NULL
       /\ \A p \in Procs :
            (call[p].op \in {"sign", "keypair"} /\ call[p].pc # "done"
             /\ Moved(p))
            => [i \in DOMAIN wallets' |-> wallets'[i].userId]
               = [i \in DOMAIN wallets |-> wallets[i].userId]]_vars

\* The record p's call fetched decrypts under the master key of the service
\* called.
Decrypts(p) ==
    LET w == call[p].wallet.value
    IN  decryptSecretKey(instances[call[p].svc].masterKey,
                         w.encryptedSecretKey, w.encryptionIv,
                         w.encryptionTag).ok

\* The stored records with lastUsed of record w, and of no other, set.
Touched(ws, w, now) ==
    [i \in 1..Len(ws) |->
        IF (IF mode = "demo" THEN ws[i].userId = w.userId ELSE ws[i].id = w.id)
        THEN [ws[i] EXCEPT !.lastUsed = now]
        ELSE ws[i]]

\* C22: a signTransactionForUser call issues one lastUsed update, for the
\* record it fetched, in the step that decrypts it.  When the store takes
\* the update, lastUsed of that record, and of no other, is set to the time
\* of that step; when the store fails it, the call ends with the storage
\* error, and either nothing is written or, the failure having been reported
\* after the write, that one write is.  A call whose lookup fails or finds
\* nothing, or whose record does not decrypt, writes nothing, and no other
\* step of the call writes to the store.
LastUsedWrittenOnce ==
    [][\A p \in Procs :
        (call[p].op = "sign" /\ call[p].pc # "done" /\ Moved(p)) =>
            IF call[p].pc = "keypair_found" /\ FoundExisting(p) /\ Decrypts(p)
            THEN \/ /\ dbFailures' = dbFailures
                    /\ wallets' = Touched(wallets, call[p].wallet.value, clock')
                    /\ call'[p].pc = "keypair_ready"
                 \/ /\ dbFailures' = dbFailures + 1
                    /\ wallets' \in {wallets,
                                    Touched(wallets, call[p].wallet.value, clock')}
                    /\ call'[p].pc = "done"
                    /\ call'[p].result = Err(StorageFailure)
            ELSE wallets' = wallets]_vars

\* C22 as the specification states it: every call whose decrypt succeeds
\* has lastUsed of its record written, and no other call has.
LastUsedWrittenOnEveryDecrypt ==
    [][\A p \in Procs :
        (call[p].op = "sign" /\ call[p].pc # "done" /\ Moved(p)) =>
            IF call[p].pc = "keypair_found" /\ FoundExisting(p) /\ Decrypts(p)
            THEN wallets' = Touched(wallets, call[p].wallet.value, clock')
            ELSE wallets' = wallets]_vars

\* A signing call has succeeded after the clock moved, and the time of its
\* decrypt step is on its user's record.
LastUsedWrittenOnceWitness ==
    \E p \in Procs :
        /\ DoneOk(p, "sign")
        /\ mode = "mock"
        /\ FirstOf(wallets, call[p].userId).lastUsed = clock
        /\ clock > 0

\* C27: within one signTransactionForUser call lastUsed is written only
\* after the signature has been applied: a step of the call that changes
\* the stored records is the step that ends the call with the signed
\* transaction.
LastUsedWrittenAfterSigning ==
    [][\A p \in Procs :
        (call[p].op = "sign" /\ call[p].pc # "done" /\ Moved(p)
            /\ wallets' # wallets)
        => /\ call'[p].pc = "done"
           /\ call'[p].result.ok
           /\ Len(call'[p].result.value.signatures) = 1]_vars

\* ------------------------------------------------------------------------
\* Two callers signing side by side on the singleton
\* ------------------------------------------------------------------------
\* p1 creates the wallets, one call after the other; p1 and p2 sign.
NextSigners ==
    \/ getStellarWalletService(NoString)
    \/ \E u \in Users : createWalletForUser("p1", "singleton", u)
    \/ \E u \in Users : createWalletForUserDemo("p1", "singleton", u)
    \/ createWalletForUserStore("p1")
    \/ createWalletForUserReturn("p1")
    \/ \E p \in Procs, u \in Users, x \in CallerXdrs :
        signTransactionForUserRacing(p, "singleton", u, x)
    \/ \E p \in Procs : signTransactionForUserFetch(p)
    \/ \E p \in Procs : getKeypairForUserDecrypt(p)
    \/ \E p \in Procs : signTransactionForUserSign(p)

SpecSigners == Init /\ [][NextSigners]_vars

\* C23: signTransactionForUser calls for different users are independent
\* under any interleaving: a step of a call for one user leaves the other
\* caller's call and every record of another user as they were, its lookup
\* returns the record of its own user, and the Keypair it decrypts and the
\* signature it returns are those of its own user's record.
SignersIndependent ==
    [][\A p \in Procs :
        (call[p].op = "sign" /\ call[p].pc # "done" /\ Moved(p)) =>
          LET own == FirstOf(wallets, call[p].userId)
          IN
            /\ \A q \in Procs \ {p} : call'[q] = call[q]
            /\ Len(wallets') = Len(wallets)
            /\ \A i \in 1..Len(wallets) :
                wallets[i].userId # call[p].userId => wallets'[i] = wallets[i]
            /\ (call[p].pc = "sign_import" /\ call'[p].wallet.ok)
                => call'[p].wallet.value = own
            /\ call'[p].pc = "keypair_ready"
                => call'[p].keypair.publicKey = own.stellarPublicKey
            /\ (call'[p].pc = "done" /\ call'[p].result.ok)
                => call'[p].result.value =
                     [tx |-> call[p].xdr,
                      signatures |->
                        <<[verifiesAgainst |-> own.stellarPublicKey]>>]]_vars

\* Both callers have signed, each for its own user, with different keys.
SignersIndependentWitness ==
    /\ DoneOk("p1", "sign")
    /\ DoneOk("p2", "sign")
    /\ call["p1"].userId # call["p2"].userId
    /\ call["p1"].result.value.signatures # call["p2"].result.value.signatures
    /\ \A i \in 1..Len(wallets) : wallets[i].lastUsed # NoDate

\* A signing call of another caller for the same user has been started.
OtherSignerOfSameUser(p) ==
    \E q \in Procs \ {p} :
        /\ call[q].op = "sign"
        /\ call[q].pc # "idle"
        /\ call[q].userId = call[p].userId

\* C24: two signTransactionForUser calls for the same user may interleave
\* arbitrarily: a step of either changes nothing of the store but lastUsed
\* of that user's record, the step that writes lastUsed leaves the time of
\* that step on the record whatever the other call wrote before (the last
\* write wins), and each call returns its own transaction with the one
\* signature of the user's key.
SameUserSignersInterleave ==
    [][\A p \in Procs :
        (call[p].op = "sign" /\ call[p].pc # "done" /\ Moved(p)
            /\ OtherSignerOfSameUser(p)) =>
          LET own == FirstOf(wallets, call[p].userId)
          IN
            /\ Len(wallets') = Len(wallets)
            /\ \A i \in 1..Len(wallets) :
                /\ [wallets'[i] EXCEPT !.lastUsed = wallets[i].lastUsed]
                       = wallets[i]
                /\ wallets[i].userId # call[p].userId
                       => wallets'[i] = wallets[i]
            /\ UNCHANGED <<instances, walletIdCounter, entropy>>
            /\ call'[p].pc = "keypair_ready"
                => FirstOf(wallets', call[p].userId).lastUsed = clock'
            /\ (call'[p].pc = "done" /\ call'[p].result.ok)
                => /\ call'[p].result.value =
                        [tx |-> call[p].xdr,
                         signatures |->
                            <<[verifiesAgainst |-> own.stellarPublicKey]>>]
                   /\ own.lastUsed \in 0..clock]_vars

\* Both callers have signed different transactions for the same user, and
\* the record carries the later of the two times written.
SameUserSignersInterleaveWitness ==
    /\ DoneOk("p1", "sign")
    /\ DoneOk("p2", "sign")
    /\ call["p1"].userId = call["p2"].userId
    /\ call["p1"].xdr # call["p2"].xdr
    /\ call["p1"].result.value.tx # call["p2"].result.value.tx
    /\ mode # "demo"
    /\ FirstOf(wallets, call["p1"].userId).lastUsed = MaxClock

\* ------------------------------------------------------------------------
\* What a caller can tell about a failure
\* ------------------------------------------------------------------------
MasterKeyRequired == "ENCRYPTION_MASTER_KEY environment variable is required"
MasterKeyLength == "ENCRYPTION_MASTER_KEY must be 32 bytes (64 hex characters)"

\* String s begins with prefix.
HasPrefix(s, prefix) ==
    Len(s) >= Len(prefix) /\ SubSeq(s, 1, Len(prefix)) = prefix

\* The messages of the argument checks of decipher.setAuthTag and
\* decipher.update, whatever the length they name.
IsInvalidArgument(message) ==
    \/ HasPrefix(message, "Invalid authentication tag length: ")
    \/ HasPrefix(message, "The argument 'encoding' is invalid for data of length ")

\* The class of the object thrown with a message: the service throws
\* "new Error(...)" itself, node:crypto throws Error, RangeError and
\* TypeError, and the database client its own classes.
ErrorClass(message) ==
    IF message \in {NoWalletFound, MasterKeyRequired, MasterKeyLength}
        THEN "Error"
    ELSE IF message = AuthenticationFailure THEN "Error"
    ELSE IF message = "Invalid key length" THEN "RangeError"
    ELSE IF message = "Invalid initialization vector"
            \/ IsInvalidArgument(message)
        THEN "TypeError"
    ELSE IF message \in {StorageFailure,
                         "Unique constraint failed on the fields: (user_id)",
                         "Unique constraint failed on the fields: (stellar_public_key)"}
        THEN "PrismaClientError"
    ELSE "Error"

\* The messages the calls in flight have ended with.
Thrown ==
    {call[p].result.error :
        p \in {q \in Procs : call[q].pc = "done" /\ ~ call[q].result.ok}}

\* The failure kinds of the specification, by the message thrown.
FailureKinds ==
    [WalletNotFound |-> {NoWalletFound},
     AuthenticationFailure |-> {AuthenticationFailure},
     MalformedInput |-> {"Invalid initialization vector",
                         "XDR Read Error", "invalid encoded string"}
                            \cup {m \in Thrown : IsInvalidArgument(m)},
     StorageFailure |-> {StorageFailure, "Wallet not found",
                         "Unique constraint failed on the fields: (user_id)",
                         "Unique constraint failed on the fields: (stellar_public_key)"},
     InvalidKeyLength |-> {"Invalid key length", MasterKeyRequired,
                           MasterKeyLength}]

\* C25: the failure kinds reach the caller as distinct typed failures: the
\* class of the failure a call ends with belongs to one kind only, so that
\* no failure of another kind comes as an object of the same class.
FailuresAreTyped ==
    \A p \in Procs :
        (call[p].pc = "done" /\ ~ call[p].result.ok) =>
            \A k1, k2 \in DOMAIN FailureKinds :
                (call[p].result.error \in FailureKinds[k1] /\ k2 # k1)
                => \A m \in FailureKinds[k2] :
                        ErrorClass(m) # ErrorClass(call[p].result.error)

\* ------------------------------------------------------------------------
\* CrossmintService.getOrCreateStellarWallet and the Crossmint API
\* ------------------------------------------------------------------------
Emails == {"a@juby", "b@juby"}

keyStoreVars == <<mode, deployment, instances, wallets, walletIdCounter, clock,
                  entropy, logs, calls, dbFailures, call, cipher>>

\* The wallets the API holds for an owner, oldest first.
WalletsOfOwner(email) ==
    SelectSeq(crossmintWallets, LAMBDA w : w.owner = email)

\* wallets.find((w) => w.chainType === "stellar") || null
FirstStellar(ws) ==
    LET stellar == SelectSeq(ws, LAMBDA w : w.chainType = "stellar")
    IN  IF stellar = <<>> THEN NULL ELSE Head(stellar)

\* getWalletByEmail on the response to its GET: 404 is null, any other
\* status outside 200..299 is thrown, caught, logged and null as well.
getWalletByEmail(response) ==
    IF response.status \in 200..299 THEN FirstStellar(response.body) ELSE NULL

CrossmintCallsStarted == Len(crossmintRequests)

\* getOrCreateStellarWallet up to the fetch of getWalletByEmail.
getOrCreateStellarWallet(p, email) ==
    /\ crossmintCall[p].pc \in {"idle", "done"}
    /\ CrossmintCallsStarted < MaxCrossmintCalls
    /\ crossmintRequests' =
        Append(crossmintRequests, [method |-> "GET", owner |-> email])
    /\ crossmintCall' = [crossmintCall EXCEPT ![p] =
        [pc |-> "get_sent", op |-> "getOrCreate", email |-> email,
         response |-> NULL, result |-> NULL]]
    /\ UNCHANGED <<keyStoreVars, defindexVars, crossmintWallets>>

\* getWalletByEmail called on its own, up to its fetch.
getWalletByEmailDirect(p, email) ==
    /\ crossmintCall[p].pc \in {"idle", "done"}
    /\ CrossmintCallsStarted < MaxCrossmintCalls
    /\ crossmintRequests' =
        Append(crossmintRequests, [method |-> "GET", owner |-> email])
    /\ crossmintCall' = [crossmintCall EXCEPT ![p] =
        [pc |-> "get_sent", op |-> "get", email |-> email,
         response |-> NULL, result |-> NULL]]
    /\ UNCHANGED <<keyStoreVars, defindexVars, crossmintWallets>>

\* createStellarSmartWallet called on its own, up to its fetch: the POST
\* is sent whatever the API holds for the owner.
createStellarSmartWallet(p, email) ==
    /\ crossmintCall[p].pc \in {"idle", "done"}
    /\ CrossmintCallsStarted < MaxCrossmintCalls
    /\ crossmintRequests' =
        Append(crossmintRequests, [method |-> "POST", owner |-> email])
    /\ crossmintCall' = [crossmintCall EXCEPT ![p] =
        [pc |-> "post_sent", op |-> "create", email |-> email,
         response |-> NULL, result |-> NULL]]
    /\ UNCHANGED <<keyStoreVars, defindexVars, crossmintWallets>>

\* The API answers the GET: the owner's wallets, 404 when it has none, or a
\* failure of the server or the connection.
crossmintAnswersGet(p) ==
    LET c == crossmintCall[p]
        held == WalletsOfOwner(c.email)
    IN
    /\ c.pc = "get_sent"
    /\ \E fails \in BOOLEAN :
        crossmintCall' = [crossmintCall EXCEPT ![p] =
            [c EXCEPT !.pc = "get_answered",
                      !.response =
                        IF fails THEN [status |-> 500, body |-> <<>>]
                        ELSE IF held = <<>> THEN [status |-> 404, body |-> <<>>]
                        ELSE [status |-> 200, body |-> held]]]
    /\ UNCHANGED <<keyStoreVars, defindexVars, crossmintWallets,
                   crossmintRequests>>

\* getOrCreateStellarWallet with the result of getWalletByEmail: return the
\* wallet found, or call createStellarSmartWallet up to its fetch.
getOrCreateStellarWalletLookedUp(p) ==
    LET c == crossmintCall[p]
        existing == getWalletByEmail(c.response)
    IN
    /\ c.pc = "get_answered"
    /\ c.op = "getOrCreate"
    /\ IF existing = NULL THEN
            /\ crossmintRequests' =
                Append(crossmintRequests, [method |-> "POST", owner |-> c.email])
            /\ crossmintCall' = [crossmintCall EXCEPT ![p] =
                [c EXCEPT !.pc = "post_sent", !.response = NULL]]
       ELSE /\ crossmintCall' = [crossmintCall EXCEPT ![p] =
                [c EXCEPT !.pc = "done", !.response = NULL,
                          !.result = Ok(existing)]]
            /\ UNCHANGED crossmintRequests
    /\ UNCHANGED <<keyStoreVars, defindexVars, crossmintWallets>>

\* getWalletByEmail called on its own returns what it found, or null.
getWalletByEmailReturn(p) ==
    LET c == crossmintCall[p]
    IN
    /\ c.pc = "get_answered"
    /\ c.op = "get"
    /\ crossmintCall' = [crossmintCall EXCEPT ![p] =
        [c EXCEPT !.pc = "done", !.response = NULL,
                  !.result = Ok(getWalletByEmail(c.response))]]
    /\ UNCHANGED <<keyStoreVars, defindexVars, crossmintWallets,
                   crossmintRequests>>

\* The API answers the POST: the owner field makes the creation idempotent
\* on its side, so an owner that has a Stellar wallet is given that wallet.
crossmintAnswersPost(p) ==
    LET c == crossmintCall[p]
        held == FirstStellar(WalletsOfOwner(c.email))
        created == [chainType |-> "stellar", owner |-> c.email,
                    address |-> <<"C", Len(crossmintWallets) + 1>>]
    IN
    /\ c.pc = "post_sent"
    /\ \E fails \in BOOLEAN :
        IF fails THEN
            /\ crossmintCall' = [crossmintCall EXCEPT ![p] =
                [c EXCEPT !.pc = "post_answered",
                          !.response = [status |-> 500, body |-> <<>>]]]
            /\ UNCHANGED crossmintWallets
        ELSE IF held # NULL THEN
            /\ crossmintCall' = [crossmintCall EXCEPT ![p] =
                [c EXCEPT !.pc = "post_answered",
                          !.response = [status |-> 200, body |-> <<held>>]]]
            /\ UNCHANGED crossmintWallets
        ELSE
            /\ crossmintCall' = [crossmintCall EXCEPT ![p] =
                [c EXCEPT !.pc = "post_answered",
                          !.response = [status |-> 201, body |-> <<created>>]]]
            /\ crossmintWallets' = Append(crossmintWallets, created)
    /\ UNCHANGED <<keyStoreVars, defindexVars, crossmintRequests>>

\* createStellarSmartWallet with the response: throw unless response.ok.
createStellarSmartWalletReturn(p) ==
    LET c == crossmintCall[p]
    IN
    /\ c.pc = "post_answered"
    /\ crossmintCall' = [crossmintCall EXCEPT ![p] =
        [c EXCEPT !.pc = "done", !.response = NULL,
                  !.result =
                    IF c.response.status \in 200..299
                    THEN Ok(Head(c.response.body))
                    ELSE Err("Failed to create Stellar smart wallet")]]
    /\ UNCHANGED <<keyStoreVars, defindexVars, crossmintWallets,
                   crossmintRequests>>

InitCrossmint ==
    /\ mode = "mock"
    /\ InitWith({KeyHexA})

NextCrossmint ==
    \/ \E p \in Procs, email \in Emails : getOrCreateStellarWallet(p, email)
    \/ \E p \in Procs, email \in Emails : getWalletByEmailDirect(p, email)
    \/ \E p \in Procs, email \in Emails : createStellarSmartWallet(p, email)
    \/ \E p \in Procs : getWalletByEmailReturn(p)
    \/ \E p \in Procs : crossmintAnswersGet(p)
    \/ \E p \in Procs : getOrCreateStellarWalletLookedUp(p)
    \/ \E p \in Procs : crossmintAnswersPost(p)
    \/ \E p \in Procs : createStellarSmartWalletReturn(p)

SpecCrossmint == InitCrossmint /\ [][NextCrossmint]_vars

\* C26: getOrCreateStellarWallet is idempotent: a create request is sent
\* only for an email that has no Stellar wallet, and a call made for an
\* email that has one returns that wallet.
CreateOnlyWhenAbsent ==
    [][\A p \in Procs :
        /\ (crossmintCall'[p].pc = "post_sent"
                /\ crossmintCall[p].pc # "post_sent"
                /\ crossmintCall'[p].op = "getOrCreate")
            => FirstStellar(WalletsOfOwner(crossmintCall[p].email)) = NULL
        /\ (crossmintCall'[p].pc = "done" /\ crossmintCall[p].pc # "done"
                /\ crossmintCall'[p].op = "getOrCreate"
                /\ crossmintCall'[p].result.ok)
            => crossmintCall'[p].result.value =
                   FirstStellar(WalletsOfOwner(crossmintCall[p].email))]_vars

\* ------------------------------------------------------------------------
\* DefindexService: the custodial flows depositForUser and withdrawForUser,
\* the DeFindex SDK, the network, and prisma.deposit, prisma.vaultBalance
\* and prisma.withdrawal
\* ------------------------------------------------------------------------
\* What the catch of a custodial flow returns.
Failure(message) ==
    [success |-> FALSE, transactionHash |-> NoString, error |-> message]

\* The flow returns: its locals go out of scope.
FlowDone(f, result) ==
    [f EXCEPT !.pc = "done", !.stellarWallet = NULL, !.awaited = NULL,
              !.submitResponse = NULL, !.result = result]

\* The account a submitted transaction acts for: the one its signature
\* verifies against.
AccountOf(tx) == tx.signatures[1].verifiesAgainst

\* The vault shares an account holds on the network after the accepted
\* transactions txs: deposits mint them, withdrawals burn them.
RECURSIVE ChainShares(_, _)
ChainShares(txs, account) ==
    IF txs = <<>> THEN 0
    ELSE LET tx == txs[Len(txs)]
             before == ChainShares(SubSeq(txs, 1, Len(txs) - 1), account)
         IN  IF AccountOf(tx) # account THEN before
             ELSE IF tx.tx = "deposit" THEN before + tx.amount
             ELSE before - tx.amount

\* The network takes a transaction that carries a signature and, for a
\* withdrawal, does not burn more shares than the account holds.
NetworkTakes(txs, signedXdr, amount) ==
    /\ Len(signedXdr.signatures) >= 1
    /\ signedXdr.tx = "withdraw"
        => ChainShares(txs, signedXdr.signatures[1].verifiesAgainst) >= amount

\* The transaction as the network records it.
Accepted(txs, signedXdr, amount) ==
    [tx |-> signedXdr.tx, signatures |-> signedXdr.signatures,
     amount |-> amount, hash |-> <<"hash", Len(txs) + 1>>]

\* submitTransaction: what sdk.sendTransaction answers, or the failure its
\* catch returns.  A deposit returns [[amounts], shares], a withdrawal
\* [[amounts]]; shares and amounts are one to one.
submitTransaction(txs, signedXdr, amount, accepted) ==
    IF accepted /\ NetworkTakes(txs, signedXdr, amount)
    THEN [success |-> TRUE,
          transactionHash |-> Accepted(txs, signedXdr, amount).hash,
          returnValue |-> IF signedXdr.tx = "deposit"
                          THEN <<amount, amount>> ELSE <<amount>>]
    ELSE Failure("Failed to submit transaction")

\* prisma.deposit.create and prisma.withdrawal.create
recordCreate(records, data, fail) ==
    IF fail THEN [ok |-> FALSE, error |-> "Can't reach database server",
                  records |-> records]
    ELSE [ok |-> TRUE, records |-> Append(records, data)]

\* prisma.vaultBalance.findUnique({where: {userId}})
vaultBalanceFindUnique(balances, userId, fail) ==
    IF fail THEN Err("Can't reach database server")
    ELSE IF FirstBalanceOf(balances, userId) = 0 THEN Ok(NULL)
    ELSE Ok(balances[FirstBalanceOf(balances, userId)])

\* prisma.vaultBalance.upsert: increment the user's balance or create it.
vaultBalanceUpsert(balances, userId, stellarWalletId, amount, vaultShares, fail) ==
    IF fail THEN [ok |-> FALSE, error |-> "Can't reach database server",
                  balances |-> balances]
    ELSE IF FirstBalanceOf(balances, userId) # 0 THEN
        [ok |-> TRUE,
         balances |-> [balances EXCEPT ![FirstBalanceOf(balances, userId)] =
            [@ EXCEPT !.totalDeposited = @ + amount,
                      !.vaultShares = @ + vaultShares]]]
    ELSE [ok |-> TRUE,
          balances |-> Append(balances,
            [userId |-> userId, stellarWalletId |-> stellarWalletId,
             totalDeposited |-> amount, vaultShares |-> vaultShares])]

\* prisma.vaultBalance.update: decrement the user's balance.
vaultBalanceUpdate(balances, userId, shares, amountWithdrawn, fail) ==
    IF fail THEN [ok |-> FALSE, error |-> "Can't reach database server",
                  balances |-> balances]
    ELSE IF FirstBalanceOf(balances, userId) = 0 THEN
        [ok |-> FALSE, error |-> "Vault balance not found",
         balances |-> balances]
    ELSE [ok |-> TRUE,
          balances |-> [balances EXCEPT ![FirstBalanceOf(balances, userId)] =
            [@ EXCEPT !.totalDeposited = @ - amountWithdrawn,
                      !.vaultShares = @ - shares]]]

\* depositForUser and withdrawForUser up to their first await:
\* getStellarWalletService(), then getUserWallet up to its lookup.
custodialBegin(p, op, userId, amount) ==
    LET singleton == IF instances["singleton"] # NULL
                     THEN Ok(instances["singleton"])
                     ELSE NewService(NoString, envKey)
        started == [IdleFlow EXCEPT !.op = op, !.userId = userId,
                                    !.amount = amount]
    IN
    /\ flow[p].pc \in {"idle", "done"}
    /\ call[p].pc \in {"idle", "done"}
    /\ calls[op] < Limits[op]
    /\ Counted(op)
    /\ IF ~ singleton.ok THEN
            /\ flow' = [flow EXCEPT ![p] =
                          FlowDone(started, Failure(singleton.error))]
            /\ UNCHANGED <<instances, call, dbFailures>>
       ELSE /\ instances' = [instances EXCEPT !["singleton"] = singleton.value]
            /\ ReadBegin(p, "singleton", userId, "wallet")
            /\ flow' = [flow EXCEPT ![p] = [started EXCEPT !.pc = "wallet"]]
    /\ UNCHANGED <<crossmintVars, network, depositRecords, vaultBalances,
                   withdrawalRecords, mode, deployment, wallets, walletIdCounter,
                   clock, entropy, logs, cipher>>

depositForUser(p, userId, amount) ==
    custodialBegin(p, "deposit", userId, amount)

withdrawForUser(p, userId, shares) ==
    custodialBegin(p, "withdraw", userId, shares)

\* depositForUser with the wallet: buildDepositTransaction up to the await
\* on sdk.depositToVault.
depositForUserBuild(p) ==
    LET f == flow[p]
        stellarWallet == call[p].result
    IN
    /\ f.pc = "wallet"
    /\ f.op = "deposit"
    /\ call[p].pc = "done"
    /\ flow' = [flow EXCEPT ![p] =
        IF ~ stellarWallet.ok THEN FlowDone(f, Failure(stellarWallet.error))
        ELSE IF f.amount <= 0
            THEN FlowDone(f, Failure("Failed to build deposit transaction"))
        ELSE [f EXCEPT !.pc = "build", !.stellarWallet = stellarWallet.value]]
    /\ UNCHANGED <<crossmintVars, keyStoreVars, network, depositRecords,
                   vaultBalances, withdrawalRecords>>

\* withdrawForUser with the wallet: read the recorded balance; the build
\* with prisma disabled skips the check and goes on to
\* buildWithdrawTransaction.
withdrawForUserBalance(p) ==
    LET f == flow[p]
        stellarWallet == call[p].result
    IN
    /\ f.pc = "wallet"
    /\ f.op = "withdraw"
    /\ call[p].pc = "done"
    /\ IF ~ stellarWallet.ok THEN
            /\ flow' = [flow EXCEPT ![p] =
                          FlowDone(f, Failure(stellarWallet.error))]
            /\ UNCHANGED dbFailures
       ELSE IF defindexBuild = "demo" THEN
            /\ flow' = [flow EXCEPT ![p] =
                IF f.amount <= 0
                THEN FlowDone(f, Failure("Failed to build withdrawal transaction"))
                ELSE [f EXCEPT !.pc = "build",
                               !.stellarWallet = stellarWallet.value]]
            /\ UNCHANGED dbFailures
       ELSE \E fail \in DbFails :
            /\ Failed(fail)
            /\ flow' = [flow EXCEPT ![p] =
                [f EXCEPT !.pc = "balance",
                          !.stellarWallet = stellarWallet.value,
                          !.awaited = vaultBalanceFindUnique(vaultBalances,
                                                             f.userId, fail)]]
    /\ UNCHANGED <<crossmintVars, network, depositRecords, vaultBalances,
                   withdrawalRecords, mode, deployment, instances, wallets,
                   walletIdCounter, clock, entropy, logs, calls, call, cipher>>

\* withdrawForUser with the balance: the check, then
\* buildWithdrawTransaction up to the await on sdk.withdrawShares.
withdrawForUserBuild(p) ==
    LET f == flow[p]
        vaultBalance == LiveBalance(f.awaited, vaultBalances)
    IN
    /\ f.pc = "balance"
    /\ flow' = [flow EXCEPT ![p] =
        IF ~ vaultBalance.ok THEN FlowDone(f, Failure(vaultBalance.error))
        ELSE IF vaultBalance.value = NULL
                \/ vaultBalance.value.vaultShares < f.amount
            THEN FlowDone(f, Failure("Insufficient vault shares for withdrawal"))
        ELSE IF f.amount <= 0
            THEN FlowDone(f, Failure("Failed to build withdrawal transaction"))
        ELSE [f EXCEPT !.pc = "build", !.awaited = NULL]]
    /\ UNCHANGED <<crossmintVars, keyStoreVars, network, depositRecords,
                   vaultBalances, withdrawalRecords>>

\* The SDK has built the transaction or failed to: signTransactionForUser
\* up to its first await.
custodialSign(p, op) ==
    LET f == flow[p]
    IN
    /\ f.pc = "build"
    /\ f.op = op
    /\ \E built \in BOOLEAN :
        IF built
        THEN /\ signTransactionForUserBegin(p, "singleton", f.userId, op)
             /\ flow' = [flow EXCEPT ![p] = [f EXCEPT !.pc = "sign"]]
        ELSE /\ flow' = [flow EXCEPT ![p] =
                FlowDone(f, Failure("Failed to build transaction"))]
             /\ UNCHANGED call
    /\ UNCHANGED <<crossmintVars, network, depositRecords, vaultBalances,
                   withdrawalRecords, mode, deployment, instances, wallets,
                   walletIdCounter, clock, entropy, logs, calls, dbFailures,
                   cipher>>

depositForUserSign(p) == custodialSign(p, "deposit")

withdrawForUserSign(p) == custodialSign(p, "withdraw")

\* The transaction is signed, or signing failed: submitTransaction up to the
\* await on sdk.sendTransaction.
custodialSubmit(p, op) ==
    LET f == flow[p]
        signedXdr == call[p].result
    IN
    /\ f.pc = "sign"
    /\ f.op = op
    /\ call[p].pc = "done"
    /\ flow' = [flow EXCEPT ![p] =
        IF ~ signedXdr.ok THEN FlowDone(f, Failure(signedXdr.error))
        ELSE [f EXCEPT !.pc = "submit", !.awaited = signedXdr.value]]
    /\ UNCHANGED <<crossmintVars, keyStoreVars, network, depositRecords,
                   vaultBalances, withdrawalRecords>>

depositForUserSubmit(p) == custodialSubmit(p, "deposit")

withdrawForUserSubmit(p) == custodialSubmit(p, "withdraw")

\* sdk.sendTransaction answers: the network took the transaction, or the
\* call failed.  submitTransaction wraps either into its response.
sdkSendTransaction(p) ==
    LET f == flow[p]
    IN
    /\ f.pc = "submit"
    /\ \E accepted \in BOOLEAN :
        LET submitResponse ==
                submitTransaction(network, f.awaited, f.amount, accepted)
        IN  /\ network' = IF submitResponse.success
                          THEN Append(network,
                                      Accepted(network, f.awaited, f.amount))
                          ELSE network
            /\ flow' = [flow EXCEPT ![p] =
                [f EXCEPT !.pc = "submitted", !.awaited = NULL,
                          !.submitResponse = submitResponse]]
    /\ UNCHANGED <<crossmintVars, keyStoreVars, depositRecords, vaultBalances,
                   withdrawalRecords>>

\* depositForUser without the throw on a rejected submission: the deposit is
\* recorded whatever the network answered.
depositForUserRecordUnchecked(p) ==
    LET f == flow[p]
        submitResponse == f.submitResponse
    IN
    /\ f.pc = "submitted"
    /\ f.op = "deposit"
    /\ IF defindexBuild = "demo" THEN
            /\ flow' = [flow EXCEPT ![p] = FlowDone(f, submitResponse)]
            /\ UNCHANGED <<depositRecords, dbFailures>>
       ELSE \E fail \in DbFails :
            LET created == recordCreate(depositRecords,
                    [userId |-> f.userId,
                     stellarWalletId |-> f.stellarWallet.id,
                     amountUsdc |-> f.amount,
                     defindexDepositTx |-> submitResponse.transactionHash,
                     vaultShares |-> IF submitResponse.success
                                     THEN submitResponse.returnValue[2] ELSE 0],
                    fail)
            IN  /\ Failed(fail)
                /\ depositRecords' = created.records
                /\ flow' = [flow EXCEPT ![p] =
                    [f EXCEPT !.pc = "record",
                              !.submitResponse =
                                IF submitResponse.success THEN submitResponse
                                ELSE submitResponse
                                     @@ [returnValue |-> <<0, 0>>],
                              !.awaited = created]]
    /\ UNCHANGED <<crossmintVars, network, vaultBalances, withdrawalRecords,
                   mode, deployment, instances, wallets, walletIdCounter, clock,
                   entropy, logs, calls, call, cipher>>

\* depositForUser with the response of submitTransaction.  A rejected
\* transaction throws.  After an accepted one the build over prisma runs
\* recordDeposit up to its first await, prisma.deposit.create; the build
\* with prisma disabled returns the response.
depositForUserRecord(p) ==
    LET f == flow[p]
        submitResponse == f.submitResponse
    IN
    /\ f.pc = "submitted"
    /\ f.op = "deposit"
    /\ IF ~ submitResponse.success THEN
            /\ flow' = [flow EXCEPT ![p] =
                          FlowDone(f, Failure(submitResponse.error))]
            /\ UNCHANGED <<depositRecords, dbFailures>>
       ELSE IF defindexBuild = "demo" THEN
            /\ flow' = [flow EXCEPT ![p] = FlowDone(f, submitResponse)]
            /\ UNCHANGED <<depositRecords, dbFailures>>
       ELSE \E fail \in DbFails :
            LET created == recordCreate(depositRecords,
                    [userId |-> f.userId,
                     stellarWalletId |-> f.stellarWallet.id,
                     amountUsdc |-> f.amount,
                     defindexDepositTx |-> submitResponse.transactionHash,
                     vaultShares |-> submitResponse.returnValue[2]], fail)
            IN  /\ Failed(fail)
                /\ depositRecords' = created.records
                /\ flow' = [flow EXCEPT ![p] =
                    [f EXCEPT !.pc = "record", !.awaited = created]]
    /\ UNCHANGED <<crossmintVars, network, vaultBalances, withdrawalRecords,
                   mode, deployment, instances, wallets, walletIdCounter, clock,
                   entropy, logs, calls, call, cipher>>

\* recordDeposit after prisma.deposit.create: prisma.vaultBalance.upsert.
recordDeposit(p) ==
    LET f == flow[p]
    IN
    /\ f.pc = "record"
    /\ f.op = "deposit"
    /\ IF ~ f.awaited.ok THEN
            /\ flow' = [flow EXCEPT ![p] =
                          FlowDone(f, Failure(f.awaited.error))]
            /\ UNCHANGED <<vaultBalances, dbFailures>>
       ELSE \E fail \in DbFails :
            LET upserted ==
                    vaultBalanceUpsert(vaultBalances, f.userId,
                                       f.stellarWallet.id, f.amount,
                                       f.submitResponse.returnValue[2], fail)
            IN  /\ Failed(fail)
                /\ vaultBalances' = upserted.balances
                /\ flow' = [flow EXCEPT ![p] =
                    [f EXCEPT !.pc = "balance_write", !.awaited = upserted]]
    /\ UNCHANGED <<crossmintVars, network, depositRecords, withdrawalRecords,
                   mode, deployment, instances, wallets, walletIdCounter, clock,
                   entropy, logs, calls, call, cipher>>

\* withdrawForUser with the response of submitTransaction: as for a
\* deposit, with recordWithdrawal up to prisma.withdrawal.create.
withdrawForUserRecord(p) ==
    LET f == flow[p]
        submitResponse == f.submitResponse
    IN
    /\ f.pc = "submitted"
    /\ f.op = "withdraw"
    /\ IF ~ submitResponse.success THEN
            /\ flow' = [flow EXCEPT ![p] =
                          FlowDone(f, Failure(submitResponse.error))]
            /\ UNCHANGED <<withdrawalRecords, dbFailures>>
       ELSE IF defindexBuild = "demo" THEN
            /\ flow' = [flow EXCEPT ![p] = FlowDone(f, submitResponse)]
            /\ UNCHANGED <<withdrawalRecords, dbFailures>>
       ELSE \E fail \in DbFails :
            LET created == recordCreate(withdrawalRecords,
                    [userId |-> f.userId,
                     stellarWalletId |-> f.stellarWallet.id,
                     amountUsdc |-> submitResponse.returnValue[1],
                     vaultShares |-> f.amount,
                     defindexWithdrawTx |-> submitResponse.transactionHash],
                    fail)
            IN  /\ Failed(fail)
                /\ withdrawalRecords' = created.records
                /\ flow' = [flow EXCEPT ![p] =
                    [f EXCEPT !.pc = "record", !.awaited = created]]
    /\ UNCHANGED <<crossmintVars, network, vaultBalances, depositRecords,
                   mode, deployment, instances, wallets, walletIdCounter, clock,
                   entropy, logs, calls, call, cipher>>

\* recordWithdrawal after prisma.withdrawal.create:
\* prisma.vaultBalance.update.
recordWithdrawal(p) ==
    LET f == flow[p]
    IN
    /\ f.pc = "record"
    /\ f.op = "withdraw"
    /\ IF ~ f.awaited.ok THEN
            /\ flow' = [flow EXCEPT ![p] =
                          FlowDone(f, Failure(f.awaited.error))]
            /\ UNCHANGED <<vaultBalances, dbFailures>>
       ELSE \E fail \in DbFails :
            LET updated ==
                    vaultBalanceUpdate(vaultBalances, f.userId, f.amount,
                                       f.submitResponse.returnValue[1], fail)
            IN  /\ Failed(fail)
                /\ vaultBalances' = updated.balances
                /\ flow' = [flow EXCEPT ![p] =
                    [f EXCEPT !.pc = "balance_write", !.awaited = updated]]
    /\ UNCHANGED <<crossmintVars, network, depositRecords, withdrawalRecords,
                   mode, deployment, instances, wallets, walletIdCounter, clock,
                   entropy, logs, calls, call, cipher>>

\* The balance is written, or the write failed: return submitResponse, or
\* what the catch makes of the failure.
custodialReturn(p, op) ==
    LET f == flow[p]
    IN
    /\ f.pc = "balance_write"
    /\ f.op = op
    /\ flow' = [flow EXCEPT ![p] =
        IF ~ f.awaited.ok THEN FlowDone(f, Failure(f.awaited.error))
        ELSE FlowDone(f, f.submitResponse)]
    /\ UNCHANGED <<crossmintVars, keyStoreVars, network, depositRecords,
                   vaultBalances, withdrawalRecords>>

depositForUserReturn(p) == custodialReturn(p, "deposit")

withdrawForUserReturn(p) == custodialReturn(p, "withdraw")

\* A deposit envelope a client built and signed with a key of its own.
ClientSignedXdr ==
    [tx |-> "deposit", signatures |-> <<[verifiesAgainst |-> <<71, 88>>]>>]

\* submitTransaction called on its own with an envelope signed elsewhere,
\* up to the await on sdk.sendTransaction.
submitTransactionDirect(p) ==
    /\ flow[p].pc \in {"idle", "done"}
    /\ call[p].pc \in {"idle", "done"}
    /\ calls["submit"] < Limits["submit"]
    /\ Counted("submit")
    /\ flow' = [flow EXCEPT ![p] =
        [IdleFlow EXCEPT !.pc = "submit", !.op = "submit",
                         !.amount = VaultAmount, !.awaited = ClientSignedXdr]]
    /\ UNCHANGED <<crossmintVars, network, depositRecords, vaultBalances,
                   withdrawalRecords, mode, deployment, instances, wallets,
                   walletIdCounter, clock, entropy, logs, dbFailures, call,
                   cipher>>

\* submitTransaction called on its own returns its response.
submitTransactionReturn(p) ==
    LET f == flow[p]
    IN
    /\ f.pc = "submitted"
    /\ f.op = "submit"
    /\ flow' = [flow EXCEPT ![p] = FlowDone(f, f.submitResponse)]
    /\ UNCHANGED <<crossmintVars, keyStoreVars, network, depositRecords,
                   vaultBalances, withdrawalRecords>>

\* The database is the mock or a server.
InitDefindex ==
    /\ mode \in {"mock", "postgres"}
    /\ defindexBuild \in DefindexBuilds
    /\ InitKeyStore({KeyHexA})

\* The steps of the key store a custodial flow runs through.
KeyStoreSteps(p) ==
    \/ readReturn(p)
    \/ signTransactionForUserFetch(p)
    \/ getKeypairForUserDecrypt(p)
    \/ signTransactionForUserSign(p)

\* p1 creates the wallet of u1.
CreateWallet ==
    \/ getStellarWalletService(NoString)
    \/ createWalletForUser("p1", "singleton", "u1")
    \/ createWalletForUserStore("p1")
    \/ createWalletForUserReturn("p1")

DepositSteps(p) ==
    \/ depositForUserBuild(p)
    \/ depositForUserSign(p)
    \/ depositForUserSubmit(p)
    \/ depositForUserRecord(p)
    \/ recordDeposit(p)
    \/ depositForUserReturn(p)

WithdrawSteps(p) ==
    \/ withdrawForUserBalance(p)
    \/ withdrawForUserBuild(p)
    \/ withdrawForUserSign(p)
    \/ withdrawForUserSubmit(p)
    \/ withdrawForUserRecord(p)
    \/ recordWithdrawal(p)
    \/ withdrawForUserReturn(p)

\* Deposits of two callers for u1.
NextDeposit ==
    \/ CreateWallet
    \/ \E p \in Procs : depositForUser(p, "u1", VaultAmount)
    \/ \E p \in Procs : submitTransactionDirect(p)
    \/ \E p \in Procs : KeyStoreSteps(p)
    \/ \E p \in Procs : sdkSendTransaction(p)
    \/ \E p \in Procs : DepositSteps(p)
    \/ \E p \in Procs : submitTransactionReturn(p)

SpecDeposit == InitDefindex /\ [][NextDeposit]_vars

\* C28: depositForUser runs build, sign, submit, record in that order.  The
\* network is handed a deposit flow's transaction only after the flow's
\* signTransactionForUser call returned it signed with the key of the
\* flow's user; a deposit record is written only by a flow whose
\* transaction the network has accepted, and carries that transaction's
\* hash; the vault balance is written only after the record; a flow that
\* fails at the wallet lookup, the build, the signing or the submission
\* writes neither.
DepositInOrder ==
    [][/\ (depositRecords' # depositRecords \/ vaultBalances' # vaultBalances)
            => \E p \in Procs : flow[p].op = "deposit" /\ flow'[p] # flow[p]
       /\ \A p \in Procs :
            (flow[p].op = "deposit" /\ flow'[p] # flow[p]
                /\ flow[p].pc \notin {"idle", "done"}) =>
              /\ flow'[p].pc = "submit" =>
                    /\ flow[p].pc = "sign"
                    /\ DoneOk(p, "sign")
                    /\ call[p].userId = flow[p].userId
                    /\ flow'[p].awaited = call[p].result.value
                    /\ call[p].result.value.tx = "deposit"
                    /\ call[p].result.value.signatures =
                        <<[verifiesAgainst |->
                            FirstOf(wallets, flow[p].userId).stellarPublicKey]>>
              /\ network' # network =>
                    /\ flow[p].pc = "submit"
                    /\ network' =
                        Append(network,
                               Accepted(network, flow[p].awaited,
                                        flow[p].amount))
              /\ depositRecords' # depositRecords =>
                    /\ flow[p].pc = "submitted"
                    /\ flow[p].submitResponse.success
                    /\ depositRecords' =
                        Append(depositRecords,
                               depositRecords'[Len(depositRecords')])
                    /\ depositRecords'[Len(depositRecords')].defindexDepositTx
                        = flow[p].submitResponse.transactionHash
                    /\ \E j \in 1..Len(network) :
                        /\ network[j].hash
                            = flow[p].submitResponse.transactionHash
                        /\ network[j].tx = "deposit"
                        /\ AccountOf(network[j]) =
                            FirstOf(wallets, flow[p].userId).stellarPublicKey
              /\ vaultBalances' # vaultBalances =>
                    /\ flow[p].pc = "record"
                    /\ \E i \in 1..Len(depositRecords), j \in 1..Len(network) :
                        /\ depositRecords[i].userId = flow[p].userId
                        /\ depositRecords[i].defindexDepositTx
                            = flow[p].submitResponse.transactionHash
                        /\ network[j].hash = depositRecords[i].defindexDepositTx
              /\ (flow'[p].pc = "done"
                    /\ (flow[p].pc \in {"wallet", "build", "sign", "submit"}
                        \/ (flow[p].pc = "submitted"
                            /\ ~ flow[p].submitResponse.success)))
                    => /\ ~ flow'[p].result.success
                       /\ depositRecords' = depositRecords
                       /\ vaultBalances' = vaultBalances]_vars

\* A deposit has gone through: signed, accepted, recorded, reported.
DepositInOrderWitness ==
    \E p \in Procs :
        /\ flow[p].pc = "done"
        /\ flow[p].op = "deposit"
        /\ flow[p].result.success
        /\ Len(network) = 1
        /\ Len(depositRecords) = 1
        /\ depositRecords[1].defindexDepositTx = network[1].hash
        /\ Len(vaultBalances) = 1
        /\ vaultBalances[1].vaultShares = VaultAmount

\* C29: depositForUser reports success=true for every call whose
\* transaction the network accepted: a flow that is past its submission,
\* recording the deposit, does not end with success=false.
SubmittedDepositSucceeds ==
    [][\A p \in Procs :
        (flow[p].op = "deposit" /\ flow'[p].pc = "done"
            /\ flow[p].pc \in {"submitted", "record", "balance_write"}
            /\ flow[p].submitResponse.success)
        => flow'[p].result.success]_vars

\* Withdrawals of two callers for u1, one of whom also deposits, on the
\* in-memory database.
InitWithdraw ==
    /\ mode = "mock"
    /\ defindexBuild \in DefindexBuilds
    /\ InitKeyStore({KeyHexA})

NextWithdraw ==
    \/ CreateWallet
    \/ depositForUser("p1", "u1", VaultAmount)
    \/ \E p \in Procs : withdrawForUser(p, "u1", VaultAmount)
    \/ \E p \in Procs : KeyStoreSteps(p)
    \/ \E p \in Procs : sdkSendTransaction(p)
    \/ DepositSteps("p1")
    \/ \E p \in Procs : WithdrawSteps(p)

SpecWithdraw == InitWithdraw /\ [][NextWithdraw]_vars

\* C30: in every reachable state the recorded vaultShares of every user is
\* non-negative.
VaultSharesNonNegative ==
    \A i \in 1..Len(vaultBalances) : vaultBalances[i].vaultShares >= 0

====
